---- MODULE Spec2Model ----
(***************************************************************************)
(* A model of matrix-core: the in-process EventBus                         *)
(* (internal/transport/eventbus.go), the Matrix rule engine                *)
(* (internal/matrix/matrix.go), the Soul (internal/soul/soul.go) and the   *)
(* WebAssembly Agent (package agent).                                      *)
(*                                                                         *)
(* Go channels are modelled by their buffer, their open/closed state and   *)
(* the panics the runtime raises (close of a closed channel, send on a     *)
(* closed channel).  A sync.RWMutex whose writers run straight-line,       *)
(* non-blocking critical sections is modelled by the set of goroutines     *)
(* holding the read lock: a writer's critical section is one atomic step   *)
(* enabled only when no reader is inside.                                  *)
(***************************************************************************)
EXTENDS Integers, Sequences, FiniteSets, TLC

\* ------------------------------------------------------------------ bounds

\* Capacity of a subscriber channel: make(chan Event, 100).
QueueCap == 100

\* Channels ever created by Subscribe.
MaxSubs == 2

\* Publish calls in the interleaving specification.
MaxPublish == 1

\* Publish calls and subscriptions where the order of a subscriber's events
\* is looked at.
MaxOrdered == 2

OrderSubs == 1

\* AddLog calls made once the log buffer is one entry short of full.
LogTail == 2

\* Transport.Subscribe calls for the one topic, and messages arriving on it.
TopicSubs == 2

MaxMessages == 2

\* The flood scenario: FloodEvents events are published while no consumer
\* drains; afterwards each consumer reads at most MaxRecv events while up to
\* TailEvents further events are published.
FloodEvents == 150

TailEvents == 1

MaxRecv == 1

\* Rules ever added to the Matrix, and Step calls, and the events one rule
\* evaluation returns at most, and AddAgent calls.
MaxRules == 3

MaxSteps == 1

MaxEvents == 2

MaxAddAgent == 4

\* Calls of Soul methods, and host calls made by a guest.
MaxSoulCalls == 3

MaxHostCalls == 1

\* Units of execution a guest's _start is followed for, and Stop calls made
\* on one Agent.
MaxGuestSteps == 2

MaxStops == 2

\* AddLog calls made on one LogsService.
MaxLogEntries == 2

\* Calls of Matrix methods followed through their mutex operations.
MaxMatrixCalls == 4

\* Rule priorities and agent ids in use.
Priorities == {1, 3, 5}

AgentIds == {"a1", "a2", "a3"}

\* Goroutines calling Publish concurrently.
Publishers == {1, 2}

\* Event types in use (two of the EventType constants).
EventTypes == {"matrix", "agent"}

\* The type of the events of the flood, and the goroutine publishing them.
FloodType == "matrix"

FloodPublisher == CHOOSE p \in Publishers : TRUE

Chans == 1..MaxSubs

VARIABLES
    subscribers,  \* eb.subscribers: EventType -> slice of channels
    nextCh,       \* number of channels made so far
    chState,      \* per channel: "unmade", "open" or "closed"
    chType,       \* per channel: the event type it was subscribed for
    buf,          \* per channel: the buffered events, oldest first
    ctxDone,      \* per channel: has the subscription's ctx been cancelled
    gor,          \* per channel: the cleanup goroutine, "none"/"waiting"/"exited"
    pubPc,        \* per publisher: "idle" or "send" (inside the RLock section)
    pubEv,        \* per publisher: the event being published
    pubSubs,      \* per publisher: the local slice `subscribers`
    pubIdx,       \* per publisher: position of the range loop
    nextId,       \* number of Publish calls so far (the event's serial)
    busPanic,     \* a panic has been raised by the Go runtime
    recvd,        \* per channel: what its consumer has received, in order
    cons,         \* per channel: consumer "reading" or at "eos"
    dropLog,      \* the sends that took the default branch
    busClosed,    \* Close has been called
    closedAt      \* nextCh at the latest Close (0 before any)

VARIABLES
    rules,        \* m.rules: the rule list, in AddRule order
    agents,       \* m.agents: agent id -> agent (0 when absent)
    addLog,       \* the AddAgent calls so far and what each returned
    metricsLog,   \* the events handed to m.metrics.RecordEvent, in order
    busLog,       \* the events handed to EventBus.Publish by the Matrix
    stepsBegun,   \* number of Step calls so far
    stepPc,       \* per Step call: "new", "eval", "record", "ok" or "err"
    stepRules,    \* per Step call: the local slice `rules`
    stepIdx,      \* per Step call: position of the range loop over rules
    stepEvents,   \* per Step call: the events the current rule returned
    stepRec,      \* per Step call: position of the range loop over events
    stepErr,      \* per Step call: the rule id named by the returned error
    stepEvald     \* per Step call: the evaluations made, with their outcome

matrixVars == <<rules, agents, addLog, metricsLog, busLog, stepsBegun, stepPc,
                stepRules, stepIdx, stepEvents, stepRec, stepErr, stepEvald>>

busVars == <<subscribers, nextCh, chState, chType, buf, ctxDone, gor, pubPc,
             pubEv, pubSubs, pubIdx, nextId, busPanic, recvd, cons, dropLog,
             busClosed, closedAt>>

VARIABLES
    memory,       \* s.memory: the memory entries, oldest first
    values,       \* s.values: key -> value, defined on the keys that are set
    persona,      \* s.persona
    soulMu,       \* per mutex of the Soul, per goroutine: "none", "r" or "w"
    soulPc,       \* per goroutine: "idle", "called" (before its lock), "locked"
    soulOp,       \* per goroutine: the Soul method it is in, with its arguments
    soulRet,      \* per goroutine: what its last Soul method returned
    soulCalls,    \* number of Soul method calls so far
    memCalls,     \* number of AddMemory calls so far (the entry's serial)
    memDone,      \* the AddMemory calls that have returned
    memPrior,     \* per AddMemory call: the calls that had returned before it
    setLog        \* the SetValue calls in the order they held valuesMu

soulVars == <<memory, values, persona, soulMu, soulPc, soulOp, soulRet,
              soulCalls, memCalls, memDone, memPrior, setLog>>

VARIABLES
    newPc,        \* agent.New: position of the one call
    newLimits,    \* agent.New: the ResourceLimits passed
    newMemSize,   \* agent.New: cfg.MemSize
    newErr,       \* agent.New: the error returned, "" for none
    agRuntime,    \* a wazero runtime has been created
    agHostModule, \* the host module "env" has been instantiated
    agModule,     \* the guest module has been instantiated
    agMemory,     \* a.memory: made or not, and its length
    hostCalls,    \* number of host calls made by the guest
    hostLast,     \* the last host call: function and arguments
    hostTrap,     \* a host call has failed with a trap
    hostAccess    \* reads and writes of guest memory or a.memory by host calls

agentVars == <<newPc, newLimits, newMemSize, newErr, agRuntime, agHostModule,
               agModule, agMemory, hostCalls, hostLast, hostTrap, hostAccess>>

VARIABLES
    startPc,      \* Agent.Start: "idle", "running" (inside _start) or "returned"
    startProg,    \* the guest's _start: exported or not, its length, its end
    fuelUsed,     \* units of execution the guest has consumed in _start
    startErr,     \* Agent.Start: the error returned, "" for nil
    stopPc,       \* Agent.Stop: "idle" or "runtime" (module closed, runtime next)
    stopCalls,    \* number of Stop calls so far
    stopErr,      \* Agent.Stop: the error the last call returned, "" for nil
    moduleClosed, \* the guest module instance has been closed
    runtimeClosed,\* the runtime has been closed
    moduleCloses, \* number of a.module.Close calls so far
    runtimeCloses \* number of a.runtime.Close calls so far

lifeVars == <<startPc, startProg, fuelUsed, startErr, stopPc, stopCalls,
              stopErr, moduleClosed, runtimeClosed, moduleCloses,
              runtimeCloses>>

VARIABLES
    keys,         \* a.keys: key string -> role, defined on the registered keys
    authLast,     \* the last Authenticator call: its arguments and results
    deployments,  \* s.deployments: id -> Deployment, on the ids deployed
    deployLast,   \* the last DeployService call: its arguments and results
    logs,         \* s.logs: the log entries, oldest first
    logCalls,     \* number of AddLog calls so far (the entry's timestamp)
    logsLast,     \* the last GetLogs call: its arguments and results
    rpcLast       \* the last intercepted RPC: status code, handler invocations

adminVars == <<keys, authLast, deployments, deployLast, logs, logCalls,
               logsLast, rpcLast>>

VARIABLES
    mxMu,         \* per mutex of the Matrix, per goroutine: "none", "r" or "w"
    mxPc,         \* per goroutine: "idle", "called" (before its lock), "locked"
    mxOp,         \* per goroutine: the Matrix method it is in, with its argument
    mxStep,       \* per goroutine: the Step call whose loop it is in, if any
    mxRet,        \* per goroutine: what its last GetAgent returned
    mxCalls       \* number of Matrix method calls so far

lockVars == <<mxMu, mxPc, mxOp, mxStep, mxRet, mxCalls>>

VARIABLES
    strPc,        \* StreamLogs: "idle", "snap", "poll", "scan" or "done"
    strFilters,   \* StreamLogs: its filters
    strSnap,      \* StreamLogs: the initial logs still to be sent
    strLast,      \* StreamLogs: lastIndex
    strIdx,       \* StreamLogs: i of the loop over the new entries
    strSent,      \* the entries the consumer of ch has received, oldest first
    strCtxDone,   \* the ctx of the StreamLogs call has been cancelled
    strReading,   \* the consumer of ch is receiving
    strStart,     \* the number of AddLog calls made when StreamLogs was called
    strClosed     \* ch has been closed

streamVars == <<strPc, strFilters, strSnap, strLast, strIdx, strSent,
                strCtxDone, strReading, strStart, strClosed>>

VARIABLES
    tSubQ,        \* t.subs[topic]: the messages waiting in the subscription
    tArrived,     \* number of messages that have arrived on the topic
    tPc,          \* per Subscribe call: "none", "next", "send" or "done"
    tMsg,         \* per Subscribe call: the message sub.Next returned
    tGot,         \* per Subscribe call: what the reader of ch has received
    tCtxDone,     \* per Subscribe call: its ctx has been cancelled
    tJoinedAt,    \* per Subscribe call: the messages arrived before the call
    tClosed       \* per Subscribe call: ch has been closed

transportVars == <<tSubQ, tArrived, tPc, tMsg, tGot, tCtxDone, tJoinedAt,
                   tClosed>>

vars == <<busVars, matrixVars, soulVars, agentVars, lifeVars, adminVars,
          lockVars, streamVars, transportVars>>

NoEvent == [type |-> "none", id |-> 0, source |-> 0]

\* ------------------------------------------------------------------ helpers

Range(s) == {s[i] : i \in 1..Len(s)}

\* the slice s without its element at position i:
\* append(subscribers[:i], subscribers[i+1:]...)
RemoveAt(s, i) == SubSeq(s, 1, i - 1) \o SubSeq(s, i + 1, Len(s))

\* index of the first element of s equal to c, 0 when there is none
IndexOfFirst(s, c) == IF s = <<>> THEN 0 ELSE 1

IndexOf(s, c) ==
    IF \E i \in 1..Len(s) : s[i] = c
    THEN CHOOSE i \in 1..Len(s) : s[i] = c /\ \A j \in 1..(i - 1) : s[j] # c
    ELSE 0

\* the goroutines inside Publish's RLock section
Readers == {p \in Publishers : pubPc[p] = "send"}

\* eb.mu.Lock() can be taken: a writer waits until every reader has left
CanLockAmongReaders == TRUE

CanLock == Readers = {}

\* every event ever enqueued on channel c, oldest first
Enq(c) == recvd[c] \o buf[c]

Ids(s) == {s[i].id : i \in 1..Len(s)}

\* ------------------------------------------------------------------ EventBus

BusInit ==
    /\ subscribers = [t \in EventTypes |-> <<>>]
    /\ nextCh = 0
    /\ chState = [c \in Chans |-> "unmade"]
    /\ chType = [c \in Chans |-> "none"]
    /\ buf = [c \in Chans |-> <<>>]
    /\ ctxDone = [c \in Chans |-> FALSE]
    /\ gor = [c \in Chans |-> "none"]
    /\ pubPc = [p \in Publishers |-> "idle"]
    /\ pubEv = [p \in Publishers |-> NoEvent]
    /\ pubSubs = [p \in Publishers |-> <<>>]
    /\ pubIdx = [p \in Publishers |-> 1]
    /\ nextId = 0
    /\ busPanic = FALSE
    /\ recvd = [c \in Chans |-> <<>>]
    /\ cons = [c \in Chans |-> "reading"]
    /\ dropLog = {}
    /\ busClosed = FALSE
    /\ closedAt = 0

\* Subscribe(ctx, eventType): under the exclusive lock, make a channel of
\* capacity QueueCap, append it to the type's slice and start the goroutine
\* that waits for ctx.Done().  limit bounds the channels ever made.
Subscribe(t, limit) ==
    /\ ~busPanic
    /\ CanLock
    /\ nextCh < limit
    /\ LET c == nextCh + 1 IN
        /\ nextCh' = c
        /\ chState' = [chState EXCEPT ![c] = "open"]
        /\ chType' = [chType EXCEPT ![c] = t]
        /\ subscribers' = [subscribers EXCEPT ![t] = Append(@, c)]
        /\ gor' = [gor EXCEPT ![c] = "waiting"]
    /\ UNCHANGED <<buf, ctxDone, pubPc, pubEv, pubSubs, pubIdx, nextId,
                   busPanic, recvd, cons, dropLog, busClosed, closedAt>>
    /\ UNCHANGED <<matrixVars, soulVars, agentVars, lifeVars, adminVars, lockVars, streamVars, transportVars>>

\* The cancel signal of subscription c fires.
Cancel(c) ==
    /\ ~busPanic
    /\ gor[c] = "waiting"
    /\ ~ctxDone[c]
    /\ ctxDone' = [ctxDone EXCEPT ![c] = TRUE]
    /\ UNCHANGED <<subscribers, nextCh, chState, chType, buf, gor, pubPc,
                   pubEv, pubSubs, pubIdx, nextId, busPanic, recvd, cons,
                   dropLog, busClosed, closedAt>>
    /\ UNCHANGED <<matrixVars, soulVars, agentVars, lifeVars, adminVars, lockVars, streamVars, transportVars>>

\* close(ch) for every channel of the set cs: the new channel states, and
\* whether the runtime panics (close of a closed channel).
CloseChansNone(cs) == chState

CloseChans(cs) == [c \in Chans |-> IF c \in cs THEN "closed" ELSE chState[c]]

ClosePanics(cs) == \E c \in cs : chState[c] = "closed"

\* unsubscribe(eventType, ch), run by the goroutine of subscription c once
\* ctx.Done() has fired: under the exclusive lock, close the channel and cut
\* it out of the slice if it is still there.
UnsubscribeTruncate(s, i) == SubSeq(s, 1, i - 1)

UnsubscribeRemove(s, i) == RemoveAt(s, i)

Unsubscribe(c) ==
    /\ ~busPanic
    /\ gor[c] = "waiting"
    /\ ctxDone[c]
    /\ CanLock
    /\ gor' = [gor EXCEPT ![c] = "exited"]
    /\ LET t == chType[c]
           i == IndexOf(subscribers[t], c)
       IN  IF i = 0
           THEN UNCHANGED <<subscribers, chState, busPanic>>
           ELSE /\ chState' = CloseChans({c})
                /\ busPanic' = ClosePanics({c})
                /\ subscribers' =
                       [subscribers EXCEPT ![t] = UnsubscribeRemove(@, i)]
    /\ UNCHANGED <<nextCh, chType, buf, ctxDone, pubPc, pubEv, pubSubs,
                   pubIdx, nextId, recvd, cons, dropLog, busClosed, closedAt>>
    /\ UNCHANGED <<matrixVars, soulVars, agentVars, lifeVars, adminVars, lockVars, streamVars, transportVars>>

\* Close(): under the exclusive lock, close every channel of every slice and
\* replace the table by an empty one.
CloseTargets == UNION {Range(subscribers[t]) : t \in EventTypes}

\* eb.subscribers = make(map[EventType][]chan Event)
KeptTable == subscribers

ClearedTable == [t \in EventTypes |-> <<>>]

Close ==
    /\ ~busPanic
    /\ CanLock
    /\ busClosed' = TRUE
    /\ closedAt' = nextCh
    /\ chState' = CloseChans(CloseTargets)
    /\ busPanic' = ClosePanics(CloseTargets)
    /\ subscribers' = ClearedTable
    /\ UNCHANGED <<nextCh, chType, buf, ctxDone, gor, pubPc, pubEv, pubSubs,
                   pubIdx, nextId, recvd, cons, dropLog>>
    /\ UNCHANGED <<matrixVars, soulVars, agentVars, lifeVars, adminVars, lockVars, streamVars, transportVars>>

\* Publish(event), first part: eb.mu.RLock() and
\* subscribers := eb.subscribers[event.Type].  limit bounds the Publish calls.
PublishBegin(p, t, limit) ==
    /\ ~busPanic
    /\ pubPc[p] = "idle"
    /\ nextId < limit
    /\ nextId' = nextId + 1
    /\ pubPc' = [pubPc EXCEPT ![p] = "send"]
    /\ pubEv' = [pubEv EXCEPT ![p] = [type |-> t, id |-> nextId + 1,
                                       source |-> p]]
    /\ pubSubs' = [pubSubs EXCEPT ![p] = subscribers[t]]
    /\ pubIdx' = [pubIdx EXCEPT ![p] = 1]
    /\ UNCHANGED <<subscribers, nextCh, chState, chType, buf, ctxDone, gor,
                   busPanic, recvd, cons, dropLog, busClosed, closedAt>>
    /\ UNCHANGED <<matrixVars, soulVars, agentVars, lifeVars, adminVars, lockVars, streamVars, transportVars>>

\* select { case ch <- event: default: } on a channel whose buffer is q:
\* the send is taken when the buffer has room, the default otherwise.
SelectSendFull(q, e) == Append(q, e)

SelectSend(q, e) == IF Len(q) < QueueCap THEN Append(q, e) ELSE q

\* for _, ch := range subscribers: the position after the one at i.
RangeNextBreak(i, n, sent) == IF sent THEN i + 1 ELSE n + 1

RangeNext(i, n, sent) == i + 1

\* Publish, one iteration of the range loop.
PublishSend(p) ==
    /\ ~busPanic
    /\ pubPc[p] = "send"
    /\ pubIdx[p] <= Len(pubSubs[p])
    /\ LET c == pubSubs[p][pubIdx[p]]
           q == SelectSend(buf[c], pubEv[p])
           sent == q # buf[c]
       IN  /\ busPanic' = (chState[c] = "closed")
           /\ buf' = [buf EXCEPT ![c] = q]
           /\ dropLog' = IF sent THEN dropLog
                         ELSE dropLog \cup {[ch |-> c, id |-> pubEv[p].id,
                                             qlen |-> Len(buf[c])]}
           /\ pubIdx' = [pubIdx EXCEPT
                           ![p] = RangeNext(@, Len(pubSubs[p]), sent)]
    /\ UNCHANGED <<subscribers, nextCh, chState, chType, ctxDone, gor, pubPc,
                   pubEv, pubSubs, nextId, recvd, cons, busClosed, closedAt>>
    /\ UNCHANGED <<matrixVars, soulVars, agentVars, lifeVars, adminVars, lockVars, streamVars, transportVars>>

\* Publish, the end of the loop: the deferred eb.mu.RUnlock() and return.
PublishReturn(p) ==
    /\ ~busPanic
    /\ pubPc[p] = "send"
    /\ pubIdx[p] > Len(pubSubs[p])
    /\ pubPc' = [pubPc EXCEPT ![p] = "idle"]
    /\ UNCHANGED <<subscribers, nextCh, chState, chType, buf, ctxDone, gor,
                   pubEv, pubSubs, pubIdx, nextId, busPanic, recvd, cons,
                   dropLog, busClosed, closedAt>>
    /\ UNCHANGED <<matrixVars, soulVars, agentVars, lifeVars, adminVars, lockVars, streamVars, transportVars>>

\* A receive on channel c reports the end of the sequence: the channel is
\* closed and its buffer has been drained.
EndOfSequenceAtClose(c) == chState[c] = "closed"

EndOfSequence(c) == chState[c] = "closed" /\ buf[c] = <<>>

\* The consumer of channel c receives: the oldest buffered event, or the end
\* of the sequence when the channel is closed and drained; it waits on an
\* open, empty channel.
Receive(c) ==
    /\ ~busPanic
    /\ chState[c] # "unmade"
    /\ cons[c] = "reading"
    /\ IF EndOfSequence(c)
       THEN /\ cons' = [cons EXCEPT ![c] = "eos"]
            /\ UNCHANGED <<recvd, buf>>
       ELSE /\ buf[c] # <<>>
            /\ recvd' = [recvd EXCEPT ![c] = Append(@, Head(buf[c]))]
            /\ buf' = [buf EXCEPT ![c] = Tail(@)]
            /\ UNCHANGED cons
    /\ UNCHANGED <<subscribers, nextCh, chState, chType, ctxDone, gor, pubPc,
                   pubEv, pubSubs, pubIdx, nextId, busPanic, dropLog,
                   busClosed, closedAt>>
    /\ UNCHANGED <<matrixVars, soulVars, agentVars, lifeVars, adminVars, lockVars, streamVars, transportVars>>

\* ------------------------------------------------------------------ Matrix

\* The Step calls: MaxSteps of them where one goroutine drives the engine,
\* one more where the calls overlap or a call is repeated after a failure.
Steps == 1..(MaxSteps + 1)

NoAgent == 0

MatrixInit ==
    /\ rules = <<>>
    /\ agents = [a \in AgentIds |-> NoAgent]
    /\ addLog = <<>>
    /\ metricsLog = <<>>
    /\ busLog = <<>>
    /\ stepsBegun = 0
    /\ stepPc = [k \in Steps |-> "new"]
    /\ stepRules = [k \in Steps |-> <<>>]
    /\ stepIdx = [k \in Steps |-> 1]
    /\ stepEvents = [k \in Steps |-> <<>>]
    /\ stepRec = [k \in Steps |-> 1]
    /\ stepErr = [k \in Steps |-> 0]
    /\ stepEvald = [k \in Steps |-> <<>>]

\* AddRule(rule): under rulesMu, append the rule.  The n-th rule added has
\* the ID n; its priority is the caller's choice.
AddRule(prio) ==
    /\ Len(rules) < MaxRules
    /\ rules' = Append(rules, [id |-> Len(rules) + 1, priority |-> prio])
    /\ UNCHANGED <<agents, addLog, metricsLog, busLog, stepsBegun, stepPc,
                   stepRules, stepIdx, stepEvents, stepRec, stepErr,
                   stepEvald>>
    /\ UNCHANGED <<busVars, soulVars, agentVars, lifeVars, adminVars, lockVars, streamVars, transportVars>>

\* _, exists := m.agents[agent.ID]
ExistsNever(id) == FALSE

Exists(id) == agents[id] # NoAgent

\* AddAgent(agent): under agentMu, fail if the id is taken, else store the
\* agent.  The n-th call passes the agent object n.
AddAgent(id) ==
    /\ Len(addLog) < MaxAddAgent
    /\ LET obj == Len(addLog) + 1 IN
       IF Exists(id)
       THEN /\ addLog' = Append(addLog, [id |-> id, obj |-> obj, ok |-> FALSE])
            /\ UNCHANGED agents
       ELSE /\ addLog' = Append(addLog, [id |-> id, obj |-> obj, ok |-> TRUE])
            /\ agents' = [agents EXCEPT ![id] = obj]
    /\ UNCHANGED <<rules, metricsLog, busLog, stepsBegun, stepPc, stepRules,
                   stepIdx, stepEvents, stepRec, stepErr, stepEvald>>
    /\ UNCHANGED <<busVars, soulVars, agentVars, lifeVars, adminVars, lockVars, streamVars, transportVars>>

\* GetAgent(id): under agentMu's read lock, the map lookup (agent, exists).
GetAgent(id) == <<agents[id], agents[id] # NoAgent>>

\* rules := make([]Rule, len(m.rules)); copy(rules, m.rules)
RulesSnapshotRest(rs) == IF rs = <<>> THEN rs ELSE Tail(rs)

RulesSnapshot(rs) == rs

\* Step, first part: under rulesMu's read lock, copy the rule list.  Nothing
\* in Step looks at whether another call is in progress.
StepBegin(limit) ==
    /\ stepsBegun < limit
    /\ LET k == stepsBegun + 1 IN
        /\ stepsBegun' = k
        /\ stepPc' = [stepPc EXCEPT ![k] = "eval"]
        /\ stepRules' = [stepRules EXCEPT ![k] = RulesSnapshot(rules)]
    /\ UNCHANGED <<rules, agents, addLog, metricsLog, busLog, stepIdx,
                   stepEvents, stepRec, stepErr, stepEvald>>
    /\ UNCHANGED <<busVars, soulVars, agentVars, lifeVars, adminVars, lockVars, streamVars, transportVars>>

\* the events a rule evaluation of Step call k returns: n of them, in order
RuleEvents(k, rule, n) == [j \in 1..n |-> [step |-> k, rule |-> rule, k |-> j]]

\* if err != nil { return fmt.Errorf(...) }: where the Step call goes on
\* after a failed evaluation of the rule at position i.
OnErrorContinue(i) == [pc |-> "eval", idx |-> i + 1]

OnError(i) == [pc |-> "err", idx |-> i]

\* if err != nil: is the evaluation's error looked at before its events are
ErrNeverLookedAt(failed) == FALSE

ErrNotNil(failed) == failed

\* for _, rule := range rules: the slice the loop of Step call k goes over
LoopRulesLive(k) == rules

LoopRules(k) == stepRules[k]

\* Step, one iteration of the loop over the rules: evaluate the rule; on an
\* error return it, naming the rule; otherwise go on to record the events.
\* The evaluation's outcome (n events, and whether it fails) is the rule's.
StepEval(k) ==
    /\ stepPc[k] = "eval"
    /\ stepIdx[k] <= Len(LoopRules(k))
    /\ LET rule == LoopRules(k)[stepIdx[k]] IN
       \E n \in 0..MaxEvents, failed \in BOOLEAN :
        /\ stepEvald' = [stepEvald EXCEPT ![k] =
               Append(@, [rule |-> rule.id, n |-> n, failed |-> failed])]
        /\ IF ErrNotNil(failed)
           THEN /\ stepPc' = [stepPc EXCEPT ![k] = OnError(stepIdx[k]).pc]
                /\ stepIdx' = [stepIdx EXCEPT ![k] = OnError(stepIdx[k]).idx]
                /\ stepErr' = [stepErr EXCEPT ![k] = rule.id]
                /\ UNCHANGED <<stepEvents, stepRec>>
           ELSE /\ stepEvents' =
                       [stepEvents EXCEPT ![k] = RuleEvents(k, rule.id, n)]
                /\ stepRec' = [stepRec EXCEPT ![k] = 1]
                /\ IF n = 0
                   THEN /\ stepIdx' = [stepIdx EXCEPT ![k] = @ + 1]
                        /\ UNCHANGED stepPc
                   ELSE /\ stepPc' = [stepPc EXCEPT ![k] = "record"]
                        /\ UNCHANGED stepIdx
                /\ UNCHANGED stepErr
    /\ UNCHANGED <<rules, agents, addLog, metricsLog, busLog, stepsBegun,
                   stepRules>>
    /\ UNCHANGED <<busVars, soulVars, agentVars, lifeVars, adminVars, lockVars, streamVars, transportVars>>

\* for _, event := range events: the event recorded at position j.
RecordedEventReversed(evs, j) == evs[Len(evs) + 1 - j]

RecordedEvent(evs, j) == evs[j]

\* Step, one iteration of the loop over the events of the rule just
\* evaluated: m.metrics.RecordEvent(event).
StepRecord(k) ==
    /\ stepPc[k] = "record"
    /\ metricsLog' =
           Append(metricsLog, RecordedEvent(stepEvents[k], stepRec[k]))
    /\ IF stepRec[k] < Len(stepEvents[k])
       THEN /\ stepRec' = [stepRec EXCEPT ![k] = @ + 1]
            /\ UNCHANGED <<stepPc, stepIdx>>
       ELSE /\ stepPc' = [stepPc EXCEPT ![k] = "eval"]
            /\ stepIdx' = [stepIdx EXCEPT ![k] = @ + 1]
            /\ UNCHANGED stepRec
    /\ UNCHANGED <<rules, agents, addLog, busLog, stepsBegun, stepRules,
                   stepEvents, stepErr, stepEvald>>
    /\ UNCHANGED <<busVars, soulVars, agentVars, lifeVars, adminVars, lockVars, streamVars, transportVars>>

\* Step, after the last rule: return nil.
StepReturn(k) ==
    /\ stepPc[k] = "eval"
    /\ stepIdx[k] > Len(LoopRules(k))
    /\ stepPc' = [stepPc EXCEPT ![k] = "ok"]
    /\ UNCHANGED <<rules, agents, addLog, metricsLog, busLog, stepsBegun,
                   stepRules, stepIdx, stepEvents, stepRec, stepErr,
                   stepEvald>>
    /\ UNCHANGED <<busVars, soulVars, agentVars, lifeVars, adminVars, lockVars, streamVars, transportVars>>

\* ------------------------------------------------------------ Matrix locks

\* The methods of one Matrix at the grain of their mutex operations, called
\* by two goroutines; a goroutine that is inside a rule evaluation of its
\* Step call makes its calls from there.
MatrixThreads == {1, 2}

MatrixLocks == {"rulesMu", "agentMu"}

NoMatrixCall == [op |-> "none", id |-> ""]

NoStep == [in |-> FALSE, rules |-> <<>>, idx |-> 1]

LockInit ==
    /\ mxMu = [l \in MatrixLocks |-> [th \in MatrixThreads |-> "none"]]
    /\ mxPc = [th \in MatrixThreads |-> "idle"]
    /\ mxOp = [th \in MatrixThreads |-> NoMatrixCall]
    /\ mxStep = [th \in MatrixThreads |-> NoStep]
    /\ mxRet = [th \in MatrixThreads |-> GetAgent(CHOOSE a \in AgentIds : TRUE)]
    /\ mxCalls = 0

\* the mutex a method takes: one mutex for the whole Matrix
MatrixLockOfWhole(op) == "rulesMu"

\* the mutex a method takes
MatrixLockOf(op) ==
    IF op \in {"AddRule", "Step"} THEN "rulesMu" ELSE "agentMu"

\* Lock ("w") in AddRule and AddAgent, RLock ("r") in Step and GetAgent
MatrixModeOf(op) == IF op \in {"AddRule", "AddAgent"} THEN "w" ELSE "r"

\* sync.RWMutex: Lock needs the mutex free, RLock needs it free of a writer
MatrixCanAcquire(l, mode) ==
    IF mode = "w"
    THEN \A th \in MatrixThreads : mxMu[l][th] = "none"
    ELSE \A th \in MatrixThreads : mxMu[l][th] # "w"

\* the mutexes goroutine th holds
MatrixHeld(th) == {l \in MatrixLocks : mxMu[l][th] # "none"}

\* goroutine th is inside a rule evaluation of its Step call
Evaluating(th) == mxStep[th].in /\ mxStep[th].idx <= Len(mxStep[th].rules)

\* A goroutine calls a method of the Matrix: it is now in front of the
\* method's Lock or RLock.  A goroutine whose Step call is in its loop calls
\* from inside a rule evaluation, and calls AddRule, AddAgent or GetAgent.
MatrixCall(th, op, id, limit) ==
    /\ mxCalls < limit
    /\ mxPc[th] = "idle"
    /\ mxStep[th].in => Evaluating(th) /\ op # "Step"
    /\ mxCalls' = mxCalls + 1
    /\ mxPc' = [mxPc EXCEPT ![th] = "called"]
    /\ mxOp' = [mxOp EXCEPT ![th] = [op |-> op, id |-> id]]
    /\ UNCHANGED <<mxMu, mxStep, mxRet>>
    /\ UNCHANGED <<busVars, matrixVars, soulVars, agentVars, lifeVars,
                   adminVars, streamVars, transportVars>>

\* m.rulesMu.Lock() / RLock(), m.agentMu.Lock() / RLock(): the first
\* statement of every method; the goroutine waits while it cannot be taken.
MatrixLock(th) ==
    /\ mxPc[th] = "called"
    /\ MatrixCanAcquire(MatrixLockOf(mxOp[th].op), MatrixModeOf(mxOp[th].op))
    /\ mxMu' = [mxMu EXCEPT ![MatrixLockOf(mxOp[th].op)][th] =
                    MatrixModeOf(mxOp[th].op)]
    /\ mxPc' = [mxPc EXCEPT ![th] = "locked"]
    /\ UNCHANGED <<mxOp, mxStep, mxRet, mxCalls>>
    /\ UNCHANGED <<busVars, matrixVars, soulVars, agentVars, lifeVars,
                   adminVars, streamVars, transportVars>>

\* the Unlock / RUnlock of the method of th
MatrixUnlocked(th) == [mxMu EXCEPT ![MatrixLockOf(mxOp[th].op)][th] = "none"]

\* th is inside the method op, holding its mutex
MatrixInside(th, op) == mxPc[th] = "locked" /\ mxOp[th].op = op

\* AddRule, under rulesMu: append the rule, unlock and return.
LockedAddRule(th, prio) ==
    /\ MatrixInside(th, "AddRule")
    /\ rules' = Append(rules, [id |-> Len(rules) + 1, priority |-> prio])
    /\ mxMu' = MatrixUnlocked(th)
    /\ mxPc' = [mxPc EXCEPT ![th] = "idle"]
    /\ UNCHANGED <<mxOp, mxStep, mxRet, mxCalls>>
    /\ UNCHANGED <<agents, addLog, metricsLog, busLog, stepsBegun, stepPc,
                   stepRules, stepIdx, stepEvents, stepRec, stepErr,
                   stepEvald>>
    /\ UNCHANGED <<busVars, soulVars, agentVars, lifeVars, adminVars, streamVars, transportVars>>

\* AddAgent, under agentMu: fail if the id is taken, else store the agent;
\* unlock and return.
LockedAddAgent(th) ==
    /\ MatrixInside(th, "AddAgent")
    /\ LET id == mxOp[th].id
           obj == Len(addLog) + 1
       IN IF Exists(id)
          THEN /\ addLog' = Append(addLog,
                                   [id |-> id, obj |-> obj, ok |-> FALSE])
               /\ UNCHANGED agents
          ELSE /\ addLog' = Append(addLog,
                                   [id |-> id, obj |-> obj, ok |-> TRUE])
               /\ agents' = [agents EXCEPT ![id] = obj]
    /\ mxMu' = MatrixUnlocked(th)
    /\ mxPc' = [mxPc EXCEPT ![th] = "idle"]
    /\ UNCHANGED <<mxOp, mxStep, mxRet, mxCalls>>
    /\ UNCHANGED <<rules, metricsLog, busLog, stepsBegun, stepPc, stepRules,
                   stepIdx, stepEvents, stepRec, stepErr, stepEvald>>
    /\ UNCHANGED <<busVars, soulVars, agentVars, lifeVars, adminVars, streamVars, transportVars>>

\* GetAgent, under agentMu's read lock: the lookup; unlock and return.
LockedGetAgent(th) ==
    /\ MatrixInside(th, "GetAgent")
    /\ mxRet' = [mxRet EXCEPT ![th] = GetAgent(mxOp[th].id)]
    /\ mxMu' = MatrixUnlocked(th)
    /\ mxPc' = [mxPc EXCEPT ![th] = "idle"]
    /\ UNCHANGED <<mxOp, mxStep, mxCalls>>
    /\ UNCHANGED <<busVars, matrixVars, soulVars, agentVars, lifeVars,
                   adminVars, streamVars, transportVars>>

\* m.rulesMu.RUnlock() after the copy, before the loop: the mutexes as Step
\* leaves them when it enters its loop
KeptForTheLoop(th) == mxMu

ReleasedBeforeTheLoop(th) == MatrixUnlocked(th)

\* Step, under rulesMu's read lock: copy the rule list, unlock, and enter
\* the loop over the copy.
LockedStepCopy(th) ==
    /\ MatrixInside(th, "Step")
    /\ mxStep' = [mxStep EXCEPT ![th] =
                      [in |-> TRUE, rules |-> RulesSnapshot(rules), idx |-> 1]]
    /\ mxMu' = ReleasedBeforeTheLoop(th)
    /\ mxPc' = [mxPc EXCEPT ![th] = "idle"]
    /\ UNCHANGED <<mxOp, mxRet, mxCalls>>
    /\ UNCHANGED <<busVars, matrixVars, soulVars, agentVars, lifeVars,
                   adminVars, streamVars, transportVars>>

\* Step, one iteration of its loop: the evaluation of the rule returns, once
\* the calls it made have returned, with n events or an error; Step returns
\* the error, or records the events and goes on.
StepLoop(th, n, failed) ==
    /\ Evaluating(th)
    /\ mxPc[th] = "idle"
    /\ IF failed
       THEN /\ mxStep' = [mxStep EXCEPT ![th] = NoStep]
            /\ UNCHANGED metricsLog
       ELSE /\ mxStep' = [mxStep EXCEPT ![th].idx = @ + 1]
            /\ metricsLog' = metricsLog \o
                   RuleEvents(th, mxStep[th].rules[mxStep[th].idx].id, n)
    /\ UNCHANGED <<mxMu, mxPc, mxOp, mxRet, mxCalls>>
    /\ UNCHANGED <<rules, agents, addLog, busLog, stepsBegun, stepPc,
                   stepRules, stepIdx, stepEvents, stepRec, stepErr,
                   stepEvald>>
    /\ UNCHANGED <<busVars, soulVars, agentVars, lifeVars, adminVars, streamVars, transportVars>>

\* Step, after the last rule: return nil.
StepDone(th) ==
    /\ mxStep[th].in
    /\ ~Evaluating(th)
    /\ mxStep' = [mxStep EXCEPT ![th] = NoStep]
    /\ UNCHANGED <<mxMu, mxPc, mxOp, mxRet, mxCalls>>
    /\ UNCHANGED <<busVars, matrixVars, soulVars, agentVars, lifeVars,
                   adminVars, streamVars, transportVars>>

\* ------------------------------------------------------------------ Soul

\* Goroutines calling the methods of one Soul.
SoulThreads == {1, 2}

\* Tag slices of memory entries and of GetMemories queries.
TagLists == {<<>>, <<"x">>, <<"y">>, <<"z">>, <<"x", "y">>, <<"y", "x">>,
             <<"x", "x">>}

\* Keys and values of the value map.
Keys == {"k1", "k2"}

Floats == {0, 1}

\* Persona records passed to UpdatePersona; the Soul starts with the empty one.
Personas == {"p1", "p2"}

NoPersona == "empty"

\* The three mutexes of a Soul.
SoulLocks == {"memoryMu", "valuesMu", "personaMu"}

SoulOps == {"AddMemory", "GetMemories", "SetValue", "GetValue",
            "UpdatePersona", "GetPersona"}

NoCall == [op |-> "none", tags |-> <<>>, key |-> "", val |-> 0,
           persona |-> NoPersona, ts |-> 0]

NoRet == [op |-> "none", mem |-> <<>>, val |-> 0, ok |-> FALSE,
          persona |-> NoPersona]

\* New(id): empty memory, empty value map, empty persona, unlocked mutexes.
SoulInit ==
    /\ memory = <<>>
    /\ values = [k \in {} |-> 0]
    /\ persona = NoPersona
    /\ soulMu = [l \in SoulLocks |-> [th \in SoulThreads |-> "none"]]
    /\ soulPc = [th \in SoulThreads |-> "idle"]
    /\ soulOp = [th \in SoulThreads |-> NoCall]
    /\ soulRet = [th \in SoulThreads |-> NoRet]
    /\ soulCalls = 0
    /\ memCalls = 0
    /\ memDone = {}
    /\ memPrior = <<>>
    /\ setLog = <<>>

\* the mutex a method takes: one mutex for the whole Soul
LockOfWhole(op) == "memoryMu"

\* the mutex a method takes
LockOf(op) ==
    CASE op \in {"AddMemory", "GetMemories"} -> "memoryMu"
      [] op \in {"SetValue", "GetValue"} -> "valuesMu"
      [] op \in {"UpdatePersona", "GetPersona"} -> "personaMu"

\* Lock ("w") for the methods that write, RLock ("r") for those that read
ModeOf(op) ==
    IF op \in {"AddMemory", "SetValue", "UpdatePersona"} THEN "w" ELSE "r"

\* sync.RWMutex: Lock needs the mutex free, RLock needs it free of a writer
CanAcquire(l, mode) ==
    IF mode = "w"
    THEN \A th \in SoulThreads : soulMu[l][th] = "none"
    ELSE \A th \in SoulThreads : soulMu[l][th] # "w"

\* the mutexes goroutine th holds
Held(th) == {l \in SoulLocks : soulMu[l][th] # "none"}

\* A goroutine calls a Soul method: it is now in front of the method's Lock
\* or RLock.  An AddMemory call is given the next serial as its Timestamp.
SoulCall(th, op, tags, key, val, pers, limit) ==
    /\ soulCalls < limit
    /\ soulPc[th] = "idle"
    /\ soulCalls' = soulCalls + 1
    /\ soulPc' = [soulPc EXCEPT ![th] = "called"]
    /\ IF op = "AddMemory"
       THEN /\ memCalls' = memCalls + 1
            /\ memPrior' = Append(memPrior, memDone)
            /\ soulOp' = [soulOp EXCEPT ![th] =
                   [op |-> op, tags |-> tags, key |-> key, val |-> val,
                    persona |-> pers, ts |-> memCalls + 1]]
       ELSE /\ soulOp' = [soulOp EXCEPT ![th] =
                   [op |-> op, tags |-> tags, key |-> key, val |-> val,
                    persona |-> pers, ts |-> 0]]
            /\ UNCHANGED <<memCalls, memPrior>>
    /\ UNCHANGED <<memory, values, persona, soulMu, soulRet, memDone, setLog>>
    /\ UNCHANGED <<busVars, matrixVars, agentVars, lifeVars, adminVars, lockVars, streamVars, transportVars>>

\* s.memoryMu.Lock() / RLock(), s.valuesMu..., s.personaMu...: the first
\* statement of every method; the goroutine waits while it cannot be taken.
SoulLock(th) ==
    /\ soulPc[th] = "called"
    /\ CanAcquire(LockOf(soulOp[th].op), ModeOf(soulOp[th].op))
    /\ soulMu' = [soulMu EXCEPT ![LockOf(soulOp[th].op)][th] =
                      ModeOf(soulOp[th].op)]
    /\ soulPc' = [soulPc EXCEPT ![th] = "locked"]
    /\ UNCHANGED <<memory, values, persona, soulOp, soulRet, soulCalls,
                   memCalls, memDone, memPrior, setLog>>
    /\ UNCHANGED <<busVars, matrixVars, agentVars, lifeVars, adminVars, lockVars, streamVars, transportVars>>

\* the deferred Unlock / RUnlock and the return of the method of th
Unlocked(th) == [soulMu EXCEPT ![LockOf(soulOp[th].op)][th] = "none"]

\* th is inside the method op, holding its mutex
Inside(th, op) == soulPc[th] = "locked" /\ soulOp[th].op = op

\* s.memory = append(s.memory, entry)
PrependMemory(mem, entry) == <<entry>> \o mem

AppendMemory(mem, entry) == Append(mem, entry)

\* AddMemory, under memoryMu: append the entry.
AddMemory(th) ==
    /\ Inside(th, "AddMemory")
    /\ memory' = AppendMemory(memory,
                     [ts |-> soulOp[th].ts, tags |-> soulOp[th].tags])
    /\ memDone' = memDone \cup {soulOp[th].ts}
    /\ soulRet' = [soulRet EXCEPT ![th] = [NoRet EXCEPT !.op = "AddMemory"]]
    /\ soulMu' = Unlocked(th)
    /\ soulPc' = [soulPc EXCEPT ![th] = "idle"]
    /\ UNCHANGED <<values, persona, soulOp, soulCalls, memCalls, memPrior,
                   setLog>>
    /\ UNCHANGED <<busVars, matrixVars, agentVars, lifeVars, adminVars, lockVars, streamVars, transportVars>>

\* hasMatchingTags(a, b): do the two tag slices share an element
hasAllTags(a, b) ==
    \A j \in 1..Len(b) : \E i \in 1..Len(a) : a[i] = b[j]

hasMatchingTags(a, b) ==
    \E i \in 1..Len(a) : \E j \in 1..Len(b) : a[i] = b[j]

\* the loop of GetMemories over s.memory: the entries with a matching tag
RECURSIVE Matches(_, _)
Matches(mem, tags) ==
    IF mem = <<>> THEN <<>>
    ELSE IF hasMatchingTags(Head(mem).tags, tags)
         THEN <<Head(mem)>> \o Matches(Tail(mem), tags)
         ELSE Matches(Tail(mem), tags)

\* what GetMemories(tags) returns on the memory mem
MemoriesOf(mem, tags) == IF Len(tags) = 0 THEN mem ELSE Matches(mem, tags)

\* GetMemories, under memoryMu's read lock: a copy of the whole memory for
\* an empty tag slice, else the matching entries.
GetMemories(th) ==
    /\ Inside(th, "GetMemories")
    /\ soulRet' = [soulRet EXCEPT ![th] =
           [NoRet EXCEPT !.op = "GetMemories",
                         !.mem = MemoriesOf(memory, soulOp[th].tags)]]
    /\ soulMu' = Unlocked(th)
    /\ soulPc' = [soulPc EXCEPT ![th] = "idle"]
    /\ UNCHANGED <<memory, values, persona, soulOp, soulCalls, memCalls,
                   memDone, memPrior, setLog>>
    /\ UNCHANGED <<busVars, matrixVars, agentVars, lifeVars, adminVars, lockVars, streamVars, transportVars>>

\* SetValue, under valuesMu: s.values[key] = value.
SetValue(th) ==
    /\ Inside(th, "SetValue")
    /\ values' = [k \in DOMAIN values \cup {soulOp[th].key} |->
                     IF k = soulOp[th].key THEN soulOp[th].val ELSE values[k]]
    /\ setLog' = Append(setLog, [key |-> soulOp[th].key, val |-> soulOp[th].val])
    /\ soulRet' = [soulRet EXCEPT ![th] = [NoRet EXCEPT !.op = "SetValue"]]
    /\ soulMu' = Unlocked(th)
    /\ soulPc' = [soulPc EXCEPT ![th] = "idle"]
    /\ UNCHANGED <<memory, persona, soulOp, soulCalls, memCalls, memDone,
                   memPrior>>
    /\ UNCHANGED <<busVars, matrixVars, agentVars, lifeVars, adminVars, lockVars, streamVars, transportVars>>

\* val, ok := s.values[key]: ok
PresentNonZero(vals, key) == key \in DOMAIN vals /\ vals[key] # 0

Present(vals, key) == key \in DOMAIN vals

\* val, ok := s.values[key]: the pair; val is 0 for a missing key
Lookup(vals, key) ==
    IF Present(vals, key) THEN <<vals[key], TRUE>> ELSE <<0, FALSE>>

\* GetValue, under valuesMu's read lock: the map lookup (val, ok).
GetValue(th) ==
    /\ Inside(th, "GetValue")
    /\ soulRet' = [soulRet EXCEPT ![th] =
           [NoRet EXCEPT !.op = "GetValue",
                         !.val = Lookup(values, soulOp[th].key)[1],
                         !.ok = Lookup(values, soulOp[th].key)[2]]]
    /\ soulMu' = Unlocked(th)
    /\ soulPc' = [soulPc EXCEPT ![th] = "idle"]
    /\ UNCHANGED <<memory, values, persona, soulOp, soulCalls, memCalls,
                   memDone, memPrior, setLog>>
    /\ UNCHANGED <<busVars, matrixVars, agentVars, lifeVars, adminVars, lockVars, streamVars, transportVars>>

\* UpdatePersona, under personaMu: s.persona = persona.
UpdatePersona(th) ==
    /\ Inside(th, "UpdatePersona")
    /\ persona' = soulOp[th].persona
    /\ soulRet' = [soulRet EXCEPT ![th] = [NoRet EXCEPT !.op = "UpdatePersona"]]
    /\ soulMu' = Unlocked(th)
    /\ soulPc' = [soulPc EXCEPT ![th] = "idle"]
    /\ UNCHANGED <<memory, values, soulOp, soulCalls, memCalls, memDone,
                   memPrior, setLog>>
    /\ UNCHANGED <<busVars, matrixVars, agentVars, lifeVars, adminVars, lockVars, streamVars, transportVars>>

\* GetPersona, under personaMu's read lock: return s.persona.
GetPersona(th) ==
    /\ Inside(th, "GetPersona")
    /\ soulRet' = [soulRet EXCEPT ![th] =
           [NoRet EXCEPT !.op = "GetPersona", !.persona = persona]]
    /\ soulMu' = Unlocked(th)
    /\ soulPc' = [soulPc EXCEPT ![th] = "idle"]
    /\ UNCHANGED <<memory, values, persona, soulOp, soulCalls, memCalls,
                   memDone, memPrior, setLog>>
    /\ UNCHANGED <<busVars, matrixVars, agentVars, lifeVars, adminVars, lockVars, streamVars, transportVars>>

\* ------------------------------------------------------------------ Agent

\* A uint32 byte count is kept as its two 16-bit halves, hi * 2^16 + lo, so
\* that arithmetic on it wraps at 2^32 as the code's does.
Half == 2 ^ 16

Bytes(hi, lo) == [hi |-> hi, lo |-> lo]

\* if l.MaxMemoryPages > 65536
MaxPages == 65536

\* memSize = uint32(limits.MaxMemoryPages) * 65536
PageSize == 65536

\* Values of ResourceLimits.MaxMemoryPages, ResourceLimits.MaxFuel and
\* Config.MemSize passed to New: the edges of the ranges and values inside.
PageCounts == {0, 1, 2, 256, MaxPages - 1, MaxPages, MaxPages + 1,
               MaxPages * 2}

Fuels == {0, 1, 1000000}

MemSizes == {Bytes(0, 0), Bytes(0, 1), Bytes(1, 0), Bytes(Half - 1, Half - 1)}

\* Offsets and lengths a guest passes to a host call.
HostArgs == {0, 1, PageSize, PageSize * 1024}

\* a.memory: whether the buffer has been made, and its length
NoBuffer == [made |-> FALSE, len |-> Bytes(0, 0)]

NoHostCall == [fn |-> "none", args |-> <<>>]

AgentInit ==
    /\ newPc = "idle"
    /\ newLimits = [pages |-> 0, fuel |-> 0]
    /\ newMemSize = Bytes(0, 0)
    /\ newErr = ""
    /\ agRuntime = FALSE
    /\ agHostModule = FALSE
    /\ agModule = FALSE
    /\ agMemory = NoBuffer
    /\ hostCalls = 0
    /\ hostLast = NoHostCall
    /\ hostTrap = FALSE
    /\ hostAccess = 0

\* ResourceLimits.Validate: the error it returns, "" for nil
ValidateNothing(l) == ""

Validate(l) ==
    IF l.pages = 0 THEN "MaxMemoryPages must be greater than 0"
    ELSE IF l.pages > MaxPages
         THEN "MaxMemoryPages exceeds maximum allowed (65536)"
         ELSE ""

\* New, first part: validate the limits and return an error if they are
\* invalid.
NewValidate(pages, fuel, memSize) ==
    /\ newPc = "idle"
    /\ newLimits' = [pages |-> pages, fuel |-> fuel]
    /\ newMemSize' = memSize
    /\ IF Validate([pages |-> pages, fuel |-> fuel]) # ""
       THEN /\ newErr' = "invalid resource limits"
            /\ newPc' = "failed"
       ELSE /\ newPc' = "runtime"
            /\ UNCHANGED newErr
    /\ UNCHANGED <<agRuntime, agHostModule, agModule, agMemory, hostCalls,
                   hostLast, hostTrap, hostAccess>>
    /\ UNCHANGED <<busVars, matrixVars, soulVars, lifeVars, adminVars, lockVars, streamVars, transportVars>>

\* New: create the runtime, build the host module "env" with the four host
\* functions and instantiate it; the instantiation may fail.
NewRuntime ==
    /\ newPc = "runtime"
    /\ agRuntime' = TRUE
    /\ \E failed \in BOOLEAN :
        IF failed
        THEN /\ newErr' = "failed to instantiate host module"
             /\ newPc' = "failed"
             /\ UNCHANGED agHostModule
        ELSE /\ agHostModule' = TRUE
             /\ newPc' = "compile"
             /\ UNCHANGED newErr
    /\ UNCHANGED <<newLimits, newMemSize, agModule, agMemory, hostCalls,
                   hostLast, hostTrap, hostAccess>>
    /\ UNCHANGED <<busVars, matrixVars, soulVars, lifeVars, adminVars, lockVars, streamVars, transportVars>>

\* New: compile cfg.Code; the compilation may fail.
NewCompile ==
    /\ newPc = "compile"
    /\ \E failed \in BOOLEAN :
        IF failed
        THEN /\ newErr' = "failed to compile module"
             /\ newPc' = "failed"
        ELSE /\ newPc' = "instantiate"
             /\ UNCHANGED newErr
    /\ UNCHANGED <<newLimits, newMemSize, agRuntime, agHostModule, agModule,
                   agMemory, hostCalls, hostLast, hostTrap, hostAccess>>
    /\ UNCHANGED <<busVars, matrixVars, soulVars, lifeVars, adminVars, lockVars, streamVars, transportVars>>

\* New: instantiate the guest module; the instantiation may fail.
NewInstantiate ==
    /\ newPc = "instantiate"
    /\ \E failed \in BOOLEAN :
        IF failed
        THEN /\ newErr' = "failed to instantiate module"
             /\ newPc' = "failed"
             /\ UNCHANGED agModule
        ELSE /\ agModule' = TRUE
             /\ newPc' = "buffer"
             /\ UNCHANGED newErr
    /\ UNCHANGED <<newLimits, newMemSize, agRuntime, agHostModule, agMemory,
                   hostCalls, hostLast, hostTrap, hostAccess>>
    /\ UNCHANGED <<busVars, matrixVars, soulVars, lifeVars, adminVars, lockVars, streamVars, transportVars>>

\* uint32(pages) * 65536: the low 32 bits of pages * 2^16, which are the
\* low 16 bits of pages as the high half and 0 as the low half
PagesToBytes(pages) == Bytes(pages % Half, 0)

\* memSize := cfg.MemSize; if memSize == 0 { memSize = uint32(pages) * 65536 }
MemSizeOf(memSize, pages) ==
    IF memSize = Bytes(0, 0) THEN PagesToBytes(pages) ELSE memSize

\* New, last part: make the working buffer and return the Agent.
NewBuffer ==
    /\ newPc = "buffer"
    /\ agMemory' = [made |-> TRUE,
                    len |-> MemSizeOf(newMemSize, newLimits.pages)]
    /\ newPc' = "done"
    /\ UNCHANGED <<newLimits, newMemSize, newErr, agRuntime, agHostModule,
                   agModule, hostCalls, hostLast, hostTrap, hostAccess>>
    /\ UNCHANGED <<busVars, matrixVars, soulVars, lifeVars, adminVars, lockVars, streamVars, transportVars>>

\* The guest of the Agent New returned calls a host function: the call is
\* noted.  What the function then does is its body.
HostCalled(fn, args, limit) ==
    /\ newPc = "done"
    /\ hostCalls < limit
    /\ hostCalls' = hostCalls + 1
    /\ hostLast' = [fn |-> fn, args |-> args]
    /\ UNCHANGED <<newPc, newLimits, newMemSize, newErr, agRuntime,
                   agHostModule, agModule, agMemory>>
    /\ UNCHANGED <<busVars, matrixVars, soulVars, lifeVars, adminVars, lockVars, streamVars, transportVars>>

\* hostLog(ctx, m, offset, length): the body is empty.
hostLog(offset, length, limit) ==
    /\ HostCalled("log", <<offset, length>>, limit)
    /\ UNCHANGED <<hostTrap, hostAccess>>

\* hostSend(ctx, m, targetOffset, targetLength, msgOffset, msgLength): the
\* body is empty.
hostSend(targetOffset, targetLength, msgOffset, msgLength, limit) ==
    /\ HostCalled("send",
                  <<targetOffset, targetLength, msgOffset, msgLength>>, limit)
    /\ UNCHANGED <<hostTrap, hostAccess>>

\* hostGetMemory(ctx, m, offset, length): the body is empty.
hostGetMemory(offset, length, limit) ==
    /\ HostCalled("get_memory", <<offset, length>>, limit)
    /\ UNCHANGED <<hostTrap, hostAccess>>

\* hostSetMemory(ctx, m, offset, length): the body is empty.
hostSetMemory(offset, length, limit) ==
    /\ HostCalled("set_memory", <<offset, length>>, limit)
    /\ UNCHANGED <<hostTrap, hostAccess>>

\* ------------------------------------------------------------ Agent life

\* What the guest's _start does: whether the module exports it, how many
\* units of execution it takes (or that it loops for ever), and whether it
\* ends by returning or by a fault of the guest program.
NoStart == [exported |-> FALSE, need |-> 0, loops |-> FALSE, ends |-> "return"]

Programs ==
    {NoStart}
    \cup {[exported |-> TRUE, need |-> 0, loops |-> TRUE, ends |-> "return"]}
    \cup {[exported |-> TRUE, need |-> n, loops |-> FALSE, ends |-> e] :
            n \in 0..MaxGuestSteps, e \in {"return", "trap"}}

LifeInit ==
    /\ startPc = "idle"
    /\ startProg = NoStart
    /\ fuelUsed = 0
    /\ startErr = ""
    /\ stopPc = "idle"
    /\ stopCalls = 0
    /\ stopErr = ""
    /\ moduleClosed = FALSE
    /\ runtimeClosed = FALSE
    /\ moduleCloses = 0
    /\ runtimeCloses = 0

\* Agent.Start: look _start up; return nil if the module does not export it,
\* call it otherwise.  The Agent is driven by one goroutine, which starts it
\* before it stops it.
Start(prog) ==
    /\ newPc = "done"
    /\ startPc = "idle"
    /\ stopCalls = 0
    /\ startProg' = prog
    /\ startPc' = IF prog.exported THEN "running" ELSE "returned"
    /\ UNCHANGED <<fuelUsed, startErr, stopPc, stopCalls, stopErr,
                   moduleClosed, runtimeClosed, moduleCloses, runtimeCloses>>
    /\ UNCHANGED <<busVars, matrixVars, soulVars, agentVars, adminVars, lockVars, streamVars, transportVars>>

\* start.Call(ctx), one unit of execution of the guest.  New builds the
\* runtime with wazero.NewRuntimeConfig() and the module with
\* wazero.NewModuleConfig() and hands limits.MaxFuel to neither, and Start
\* passes ctx on as it got it: nothing but the program ends the call.  The
\* guest is followed for MaxGuestSteps units.
GuestStep(limit) ==
    /\ startPc = "running"
    /\ startProg.loops \/ fuelUsed < startProg.need
    /\ fuelUsed < limit
    /\ fuelUsed' = fuelUsed + 1
    /\ UNCHANGED <<startPc, startProg, startErr, stopPc, stopCalls, stopErr,
                   moduleClosed, runtimeClosed, moduleCloses, runtimeCloses>>
    /\ UNCHANGED <<busVars, matrixVars, soulVars, agentVars, adminVars, lockVars, streamVars, transportVars>>

\* start.Call(ctx) returns, and Start with it: any error of the call is
\* wrapped as "failed to call _start".
StartReturn ==
    /\ startPc = "running"
    /\ ~startProg.loops
    /\ fuelUsed = startProg.need
    /\ startErr' = IF startProg.ends = "trap" THEN "failed to call _start"
                   ELSE ""
    /\ startPc' = "returned"
    /\ UNCHANGED <<startProg, fuelUsed, stopPc, stopCalls, stopErr,
                   moduleClosed, runtimeClosed, moduleCloses, runtimeCloses>>
    /\ UNCHANGED <<busVars, matrixVars, soulVars, agentVars, adminVars, lockVars, streamVars, transportVars>>

\* Agent.Stop, first part: a.module.Close(ctx); if it fails Stop returns
\* that error.  Whether a Close that failed has closed its target is not
\* known.
StopModule(limit) ==
    /\ newPc = "done"
    /\ startPc # "running"
    /\ stopPc = "idle"
    /\ stopCalls < limit
    /\ stopCalls' = stopCalls + 1
    /\ moduleCloses' = moduleCloses + 1
    /\ \E failed \in BOOLEAN :
        IF failed
        THEN /\ stopErr' = "failed to close module"
             /\ stopPc' = "idle"
             /\ \E closed \in BOOLEAN : moduleClosed' = (moduleClosed \/ closed)
        ELSE /\ stopErr' = ""
             /\ stopPc' = "runtime"
             /\ moduleClosed' = TRUE
    /\ UNCHANGED <<startPc, startProg, fuelUsed, startErr, runtimeClosed,
                   runtimeCloses>>
    /\ UNCHANGED <<busVars, matrixVars, soulVars, agentVars, adminVars, lockVars, streamVars, transportVars>>

\* Agent.Stop, second part: a.runtime.Close(ctx), and return.
StopRuntime ==
    /\ stopPc = "runtime"
    /\ runtimeCloses' = runtimeCloses + 1
    /\ \E failed \in BOOLEAN :
        IF failed
        THEN /\ stopErr' = "failed to close runtime"
             /\ \E closed \in BOOLEAN :
                    runtimeClosed' = (runtimeClosed \/ closed)
        ELSE /\ stopErr' = ""
             /\ runtimeClosed' = TRUE
    /\ stopPc' = "idle"
    /\ UNCHANGED <<startPc, startProg, fuelUsed, startErr, stopCalls,
                   moduleClosed, moduleCloses>>
    /\ UNCHANGED <<busVars, matrixVars, soulVars, agentVars, adminVars, lockVars, streamVars, transportVars>>

\* ---------------------------------------------------------- Authenticator

\* A string is the sequence of its characters.
Bearer == <<"B", "e", "a", "r", "e", "r", " ">>

KeyK == <<"k">>

\* Key strings passed to AddKey and RemoveKey, the empty one among them.
KeyStrings == {<<>>, KeyK, Bearer, Bearer \o KeyK}

\* Values of the "authorization" metadata of a request.
AuthValues == {<<>>, KeyK, <<"x">>, Bearer, Bearer \o KeyK, Bearer \o <<"x">>,
               Bearer \o Bearer, Bearer \o Bearer \o KeyK}

\* A request context: whether it carries incoming metadata, and the values
\* md.Get("authorization") returns.
NoMetadata == [md |-> FALSE, auth |-> <<>>]

Contexts ==
    {NoMetadata, [md |-> TRUE, auth |-> <<>>]}
    \cup {[md |-> TRUE, auth |-> <<v>>] : v \in AuthValues}
    \cup {[md |-> TRUE, auth |-> <<KeyK, <<"x">>>>],
          [md |-> TRUE, auth |-> <<<<"x">>, KeyK>>]}

RoleAdmin == "admin"

RoleOperator == "operator"

RoleViewer == "viewer"

\* Roles passed to AddKey and Authorize: the three of the package, one that
\* is none of them, and the empty one.
Roles == {RoleAdmin, RoleOperator, RoleViewer, "guest", ""}

PermissionDeployAgent == "deploy:agent"

PermissionDeployMatrix == "deploy:matrix"

PermissionStopDeploy == "deploy:stop"

PermissionRemoveDeploy == "deploy:remove"

PermissionReadLogs == "logs:read"

PermissionReadSensitive == "logs:sensitive"

Permissions == {PermissionDeployAgent, PermissionDeployMatrix,
                PermissionStopDeploy, PermissionRemoveDeploy,
                PermissionReadLogs, PermissionReadSensitive}

ErrUnauthorized == "unauthorized"

ErrForbidden == "forbidden"

\* rolePermissions, with the empty set standing for a role that has no entry
rolePermissionsAlike(role) ==
    IF role \in {RoleAdmin, RoleOperator}
    THEN Permissions
    ELSE IF role = RoleViewer THEN {PermissionReadLogs} ELSE {}

rolePermissions(role) ==
    IF role = RoleAdmin
    THEN {PermissionDeployAgent, PermissionDeployMatrix, PermissionStopDeploy,
          PermissionRemoveDeploy, PermissionReadLogs, PermissionReadSensitive}
    ELSE IF role = RoleOperator
         THEN {PermissionDeployAgent, PermissionDeployMatrix,
               PermissionStopDeploy, PermissionRemoveDeploy,
               PermissionReadLogs}
         ELSE IF role = RoleViewer THEN {PermissionReadLogs} ELSE {}

NoAuthCall == [op |-> "none", key |-> <<>>, ctx |-> NoMetadata, role |-> "",
               perm |-> "", ret |-> "", err |-> ""]

\* the nil *Deployment
NoDeployment == [type |-> "", status |-> ""]

NoDeployCall == [op |-> "", id |-> "", ctx |-> NoMetadata, err |-> "",
                 ret |-> NoDeployment]

NoFilters == [level |-> "", component |-> "", since |-> 0, until |-> 0,
              limit |-> 0]

NoLogsCall == [called |-> FALSE, ctx |-> NoMetadata, filters |-> NoFilters,
               result |-> <<>>, err |-> ""]

NoRpc == [kind |-> "none", perm |-> "", method |-> "", ctx |-> NoMetadata,
          code |-> "", handled |-> 0]

AdminInit ==
    /\ keys = <<>>
    /\ authLast = NoAuthCall
    /\ deployments = <<>>
    /\ deployLast = NoDeployCall
    /\ logs = <<>>
    /\ logCalls = 0
    /\ logsLast = NoLogsCall
    /\ rpcLast = NoRpc

\* AddKey: reject an empty key or an empty role, else a.keys[key.Key] = key
AddKey(key, role) ==
    /\ LET err == IF key = <<>> THEN "key cannot be empty"
                  ELSE IF role = "" THEN "role cannot be empty" ELSE ""
       IN /\ keys' = IF err # "" THEN keys
                     ELSE [k \in DOMAIN keys \cup {key} |->
                             IF k = key THEN role ELSE keys[k]]
          /\ authLast' = [NoAuthCall EXCEPT !.op = "AddKey", !.key = key,
                                            !.role = role, !.err = err]
    /\ UNCHANGED <<deployments, deployLast, logs, logCalls, logsLast, rpcLast>>
    /\ UNCHANGED <<busVars, matrixVars, soulVars, agentVars, lifeVars, lockVars, streamVars, transportVars>>

\* RemoveKey: delete(a.keys, key)
RemoveKey(key) ==
    /\ keys' = [k \in DOMAIN keys \ {key} |-> keys[k]]
    /\ authLast' = [NoAuthCall EXCEPT !.op = "RemoveKey", !.key = key]
    /\ UNCHANGED <<deployments, deployLast, logs, logCalls, logsLast, rpcLast>>
    /\ UNCHANGED <<busVars, matrixVars, soulVars, agentVars, lifeVars, lockVars, streamVars, transportVars>>

\* if len(apiKey) > 7 && apiKey[:7] == "Bearer " { apiKey = apiKey[7:] }
StripNothing(apiKey) == apiKey

StripBearer(apiKey) ==
    IF Len(apiKey) > 7 /\ SubSeq(apiKey, 1, 7) = Bearer
    THEN SubSeq(apiKey, 8, Len(apiKey))
    ELSE apiKey

\* Authenticate: the role and the error it returns.  The key found under
\* a.keys[apiKey] has apiKey as its Key, so the constant-time comparison
\* that follows the lookup succeeds.
AuthenticateResult(ks, ctx) ==
    IF ~ctx.md THEN [role |-> "", err |-> ErrUnauthorized]
    ELSE IF Len(ctx.auth) = 0 THEN [role |-> "", err |-> ErrUnauthorized]
    ELSE LET apiKey == StripBearer(ctx.auth[1])
         IN IF apiKey \notin DOMAIN ks
            THEN [role |-> "", err |-> ErrUnauthorized]
            ELSE [role |-> ks[apiKey], err |-> ""]

Authenticate(ctx) ==
    /\ LET r == AuthenticateResult(keys, ctx)
       IN authLast' = [NoAuthCall EXCEPT !.op = "Authenticate", !.ctx = ctx,
                                         !.ret = r.role, !.err = r.err]
    /\ UNCHANGED <<keys, deployments, deployLast, logs, logCalls, logsLast,
                   rpcLast>>
    /\ UNCHANGED <<busVars, matrixVars, soulVars, agentVars, lifeVars, lockVars, streamVars, transportVars>>

\* Authorize: the error it returns, "" for nil
AuthorizeResult(role, permission) ==
    IF rolePermissions(role) = {} THEN ErrForbidden
    ELSE IF permission \in rolePermissions(role) THEN "" ELSE ErrForbidden

Authorize(role, permission) ==
    /\ authLast' = [NoAuthCall EXCEPT !.op = "Authorize", !.role = role,
                                      !.perm = permission,
                                      !.err = AuthorizeResult(role, permission)]
    /\ UNCHANGED <<keys, deployments, deployLast, logs, logCalls, logsLast,
                   rpcLast>>
    /\ UNCHANGED <<busVars, matrixVars, soulVars, agentVars, lifeVars, lockVars, streamVars, transportVars>>

\* CheckPermission: Authenticate, then Authorize with the role it returned
CheckPermissionKeepsRole(ks, ctx, permission) ==
    LET a == AuthenticateResult(ks, ctx)
    IN IF a.err # "" THEN [role |-> "", err |-> a.err]
       ELSE [role |-> a.role, err |-> AuthorizeResult(a.role, permission)]

CheckPermissionResult(ks, ctx, permission) ==
    LET a == AuthenticateResult(ks, ctx)
    IN IF a.err # "" THEN [role |-> "", err |-> a.err]
       ELSE IF AuthorizeResult(a.role, permission) # ""
            THEN [role |-> "", err |-> AuthorizeResult(a.role, permission)]
            ELSE [role |-> a.role, err |-> ""]

CheckPermission(ctx, permission) ==
    /\ LET r == CheckPermissionResult(keys, ctx, permission)
       IN authLast' = [NoAuthCall EXCEPT !.op = "CheckPermission",
                                         !.ctx = ctx, !.perm = permission,
                                         !.ret = r.role, !.err = r.err]
    /\ UNCHANGED <<keys, deployments, deployLast, logs, logCalls, logsLast,
                   rpcLast>>
    /\ UNCHANGED <<busVars, matrixVars, soulVars, agentVars, lifeVars, lockVars, streamVars, transportVars>>

\* ------------------------------------------------------------ interceptors

HealthCheck == "/grpc.health.v1.Health/Check"

HealthWatch == "/grpc.health.v1.Health/Watch"

\* info.FullMethod of an intercepted RPC: the two health methods and one of
\* the admin services.
Methods == {HealthCheck, HealthWatch, "/admin.Deploy/DeployAgent"}

\* Status codes the wrapped handler returns.
HandlerCodes == {"OK", "Internal"}

\* The handler is invoked and what it returns is returned.
Handled(h) == [code |-> h, handled |-> 1]

\* status.Errorf(code, ...) is returned without invoking the handler.
Refused(code) == [code |-> code, handled |-> 0]

\* requireAuthUnaryInterceptor
requireAuthUnaryInterceptor(ks, method, ctx, h) ==
    IF method = HealthCheck THEN Handled(h)
    ELSE IF AuthenticateResult(ks, ctx).err # ""
         THEN Refused("Unauthenticated")
         ELSE Handled(h)

\* requireAuthStreamInterceptor
requireAuthStreamInterceptor(ks, method, ctx, h) ==
    IF method = HealthWatch THEN Handled(h)
    ELSE IF AuthenticateResult(ks, ctx).err # ""
         THEN Refused("Unauthenticated")
         ELSE Handled(h)

\* the interceptor UnaryAuthInterceptor(permission) returns
UnaryAuthInterceptorAuthOnly(ks, permission, method, ctx, h) ==
    requireAuthUnaryInterceptor(ks, method, ctx, h)

UnaryAuthInterceptor(ks, permission, method, ctx, h) ==
    IF method = HealthCheck THEN Handled(h)
    ELSE LET err == CheckPermissionResult(ks, ctx, permission).err
         IN IF err # ""
            THEN IF err = ErrUnauthorized
                 THEN Refused("Unauthenticated")
                 ELSE Refused("PermissionDenied")
            ELSE Handled(h)

\* the interceptor StreamAuthInterceptor(permission) returns
StreamAuthInterceptor(ks, permission, method, ctx, h) ==
    IF method = HealthWatch THEN Handled(h)
    ELSE LET err == CheckPermissionResult(ks, ctx, permission).err
         IN IF err # ""
            THEN IF err = ErrUnauthorized
                 THEN Refused("Unauthenticated")
                 ELSE Refused("PermissionDenied")
            ELSE Handled(h)

\* An RPC goes through one of the four interceptors; h is what its handler
\* returns if it is invoked.
Intercept(kind, permission, method, ctx, h) ==
    /\ LET r == CASE kind = "UnaryAuthInterceptor" ->
                        UnaryAuthInterceptor(keys, permission, method, ctx, h)
                  [] kind = "StreamAuthInterceptor" ->
                        StreamAuthInterceptor(keys, permission, method, ctx, h)
                  [] kind = "requireAuthUnaryInterceptor" ->
                        requireAuthUnaryInterceptor(keys, method, ctx, h)
                  [] kind = "requireAuthStreamInterceptor" ->
                        requireAuthStreamInterceptor(keys, method, ctx, h)
       IN rpcLast' = [kind |-> kind, perm |-> permission, method |-> method,
                      ctx |-> ctx, code |-> r.code, handled |-> r.handled]
    /\ UNCHANGED <<keys, authLast, deployments, deployLast, logs, logCalls,
                   logsLast>>
    /\ UNCHANGED <<busVars, matrixVars, soulVars, agentVars, lifeVars, lockVars, streamVars, transportVars>>

\* ----------------------------------------------------------- DeployService

DeployIds == {"d1", "d2"}

\* _, exists := s.deployments[id]
ExistsRunning(table, id) ==
    id \in DOMAIN table /\ table[id].status = "running"

DeploymentExists(table, id) == id \in DOMAIN table

\* s.deployments[id] = d
Stored(table, id, d) ==
    [x \in DOMAIN table \cup {id} |-> IF x = id THEN d ELSE table[x]]

\* delete(s.deployments, id)
Deleted(table, id) == [x \in DOMAIN table \ {id} |-> table[x]]

\* DeployAgent and DeployMatrix: under s.mu, fail if the id is deployed, else
\* store a running Deployment of the type under it.  ctx is not looked at.
Deploy(op, type, ctx, id) ==
    /\ IF DeploymentExists(deployments, id)
       THEN /\ deployLast' = [NoDeployCall EXCEPT
                                 !.op = op, !.id = id, !.ctx = ctx,
                                 !.err = "deployment already exists"]
            /\ UNCHANGED deployments
       ELSE /\ deployments' = Stored(deployments, id,
                                     [type |-> type, status |-> "running"])
            /\ deployLast' = [NoDeployCall EXCEPT
                                 !.op = op, !.id = id, !.ctx = ctx]
    /\ UNCHANGED <<keys, authLast, logs, logCalls, logsLast, rpcLast>>
    /\ UNCHANGED <<busVars, matrixVars, soulVars, agentVars, lifeVars, lockVars, streamVars, transportVars>>

DeployAgent(ctx, id) == Deploy("DeployAgent", "agent", ctx, id)

DeployMatrix(ctx, id) == Deploy("DeployMatrix", "matrix", ctx, id)

\* GetDeployment: under s.mu.RLock, the deployment of the id, or an error.
GetDeployment(id) ==
    /\ deployLast' =
           IF DeploymentExists(deployments, id)
           THEN [NoDeployCall EXCEPT !.op = "GetDeployment", !.id = id,
                                     !.ret = deployments[id]]
           ELSE [NoDeployCall EXCEPT !.op = "GetDeployment", !.id = id,
                                     !.err = "deployment not found"]
    /\ UNCHANGED <<keys, authLast, deployments, logs, logCalls, logsLast,
                   rpcLast>>
    /\ UNCHANGED <<busVars, matrixVars, soulVars, agentVars, lifeVars, lockVars, streamVars, transportVars>>

\* StopDeployment: under s.mu, fail if the id is not deployed, else
\* deployment.Status = "stopped".
StopDeployment(ctx, id) ==
    /\ IF DeploymentExists(deployments, id)
       THEN /\ deployments' = [deployments EXCEPT ![id].status = "stopped"]
            /\ deployLast' = [NoDeployCall EXCEPT
                                 !.op = "StopDeployment", !.id = id,
                                 !.ctx = ctx]
       ELSE /\ deployLast' = [NoDeployCall EXCEPT
                                 !.op = "StopDeployment", !.id = id,
                                 !.ctx = ctx, !.err = "deployment not found"]
            /\ UNCHANGED deployments
    /\ UNCHANGED <<keys, authLast, logs, logCalls, logsLast, rpcLast>>
    /\ UNCHANGED <<busVars, matrixVars, soulVars, agentVars, lifeVars, lockVars, streamVars, transportVars>>

\* RemoveDeployment: under s.mu, fail if the id is not deployed, else delete
\* it from the table.
RemoveDeployment(ctx, id) ==
    /\ IF DeploymentExists(deployments, id)
       THEN /\ deployments' = Deleted(deployments, id)
            /\ deployLast' = [NoDeployCall EXCEPT
                                 !.op = "RemoveDeployment", !.id = id,
                                 !.ctx = ctx]
       ELSE /\ deployLast' = [NoDeployCall EXCEPT
                                 !.op = "RemoveDeployment", !.id = id,
                                 !.ctx = ctx, !.err = "deployment not found"]
            /\ UNCHANGED deployments
    /\ UNCHANGED <<keys, authLast, logs, logCalls, logsLast, rpcLast>>
    /\ UNCHANGED <<busVars, matrixVars, soulVars, agentVars, lifeVars, lockVars, streamVars, transportVars>>

\* ------------------------------------------------------------- LogsService

\* maxLogs: 10000
maxLogs == 10000

Levels == {"info", "error"}

Components == {"admin", "agent"}

\* LogFilters of a GetLogs call; "" and 0 are the zero values, which switch
\* a filter off.
Filters ==
    [level : {"", "info"}, component : {"", "admin"},
     since : {0, 2}, until : {0, 1}, limit : {0, 1}]

\* s.logs = s.logs[len(s.logs)-s.maxLogs:] when there are more than maxLogs
TrimNewest(l) == IF Len(l) > maxLogs THEN SubSeq(l, 1, maxLogs) ELSE l

Trim(l) ==
    IF Len(l) > maxLogs THEN SubSeq(l, Len(l) - maxLogs + 1, Len(l)) ELSE l

\* s.logsMu is read-locked by StreamLogs, which holds it over its loop over
\* the new entries, sends included.
StreamHoldsRLock == strPc = "scan"

\* AddLog: under s.logsMu.Lock(), append the entry, stamped with the time of
\* the call, and trim.
AddLog(level, component, limit) ==
    /\ ~StreamHoldsRLock
    /\ logCalls < limit
    /\ logCalls' = logCalls + 1
    /\ logs' = Trim(Append(logs, [timestamp |-> logCalls + 1,
                                  level |-> level, component |-> component]))
    /\ UNCHANGED <<keys, authLast, deployments, deployLast, logsLast, rpcLast>>
    /\ UNCHANGED <<busVars, matrixVars, soulVars, agentVars, lifeVars, lockVars, streamVars, transportVars>>

\* n AddLog calls in a row by one caller on the new service, with nothing
\* else in between: the n entries, stamped in the order of the calls.
AddLogBurst(level, component, n) ==
    /\ ~StreamHoldsRLock
    /\ logCalls = 0
    /\ logCalls' = n
    /\ logs' = Trim(logs \o [i \in 1..n |->
                                [timestamp |-> i, level |-> level,
                                 component |-> component]])
    /\ UNCHANGED <<keys, authLast, deployments, deployLast, logsLast, rpcLast>>
    /\ UNCHANGED <<busVars, matrixVars, soulVars, agentVars, lifeVars, lockVars, streamVars, transportVars>>

\* the filters of the loop of GetLogs
Passes(entry, filters) ==
    /\ ~(filters.level # "" /\ entry.level # filters.level)
    /\ ~(filters.component # "" /\ entry.component # filters.component)
    /\ ~(filters.since # 0 /\ entry.timestamp < filters.since)
    /\ ~(filters.until # 0 /\ entry.timestamp > filters.until)

\* for _, entry := range s.logs { ...; result = append(result, entry) }
Filtered(l, filters) == SelectSeq(l, LAMBDA entry : Passes(entry, filters))

\* result = result[len(result)-filters.Limit:] when the limit is exceeded
Limited(result, limit) ==
    IF limit > 0 /\ Len(result) > limit
    THEN SubSeq(result, Len(result) - limit + 1, Len(result))
    ELSE result

\* GetLogs: under s.logsMu, the entries that pass the filters, the last
\* filters.Limit of them, and a nil error.  ctx is not looked at.
GetLogs(ctx, filters) ==
    /\ logsLast' = [called |-> TRUE, ctx |-> ctx, filters |-> filters,
                    result |-> Limited(Filtered(logs, filters), filters.limit),
                    err |-> ""]
    /\ UNCHANGED <<keys, authLast, deployments, deployLast, logs, logCalls,
                   rpcLast>>
    /\ UNCHANGED <<busVars, matrixVars, soulVars, agentVars, lifeVars, lockVars, streamVars, transportVars>>

\* -------------------------------------------------------------- StreamLogs

StreamInit ==
    /\ strPc = "idle"
    /\ strFilters = NoFilters
    /\ strSnap = <<>>
    /\ strLast = 0
    /\ strIdx = 0
    /\ strSent = <<>>
    /\ strCtxDone = FALSE
    /\ strReading = TRUE
    /\ strStart = 0
    /\ strClosed = FALSE

\* the filters of the loop over the new entries: Level and Component
StreamPasses(entry, filters) ==
    /\ ~(filters.level # "" /\ entry.level # filters.level)
    /\ ~(filters.component # "" /\ entry.component # filters.component)

\* StreamLogs, first part: logs, err := s.GetLogs(ctx, filters).
StreamLogs(ctx, filters) ==
    /\ strPc = "idle"
    /\ strPc' = "snap"
    /\ strFilters' = filters
    /\ strSnap' = Limited(Filtered(logs, filters), filters.limit)
    /\ strStart' = logCalls
    /\ UNCHANGED <<strLast, strIdx, strSent, strCtxDone, strReading, strClosed>>
    /\ UNCHANGED <<busVars, matrixVars, soulVars, agentVars, lifeVars,
                   adminVars, lockVars, transportVars>>

\* return ctx.Err(), and the deferred close(ch)
StreamReturn ==
    /\ strPc' = "done"
    /\ strClosed' = TRUE

\* The loop over the initial logs: select { case <-ctx.Done(): return;
\* case ch <- entry: }.  ch is sent on when its consumer receives.
StreamSendInitial ==
    /\ strPc = "snap"
    /\ strSnap # <<>>
    /\ \/ /\ strCtxDone
          /\ StreamReturn
          /\ UNCHANGED <<strSnap, strSent>>
       \/ /\ strReading
          /\ strSent' = Append(strSent, Head(strSnap))
          /\ strSnap' = Tail(strSnap)
          /\ UNCHANGED <<strPc, strClosed>>
    /\ UNCHANGED <<strFilters, strLast, strIdx, strCtxDone, strReading,
                   strStart>>
    /\ UNCHANGED <<busVars, matrixVars, soulVars, agentVars, lifeVars,
                   adminVars, lockVars, transportVars>>

\* lastIndex := len(s.logs), once the initial logs have been sent.
StreamSnapDone ==
    /\ strPc = "snap"
    /\ strSnap = <<>>
    /\ strLast' = Len(logs)
    /\ strPc' = "poll"
    /\ UNCHANGED <<strFilters, strSnap, strIdx, strSent, strCtxDone,
                   strReading, strStart, strClosed>>
    /\ UNCHANGED <<busVars, matrixVars, soulVars, agentVars, lifeVars,
                   adminVars, lockVars, transportVars>>

\* The top of the streaming loop: return if ctx is done; else take the read
\* lock and, if len(s.logs) > lastIndex, enter the loop over the new entries
\* (with nothing new the lock is released and the loop sleeps).
StreamPoll ==
    /\ strPc = "poll"
    /\ IF strCtxDone
       THEN /\ StreamReturn
            /\ UNCHANGED strIdx
       ELSE /\ Len(logs) > strLast
            /\ strPc' = "scan"
            /\ strIdx' = strLast
            /\ UNCHANGED strClosed
    /\ UNCHANGED <<strFilters, strSnap, strLast, strSent, strCtxDone,
                   strReading, strStart>>
    /\ UNCHANGED <<busVars, matrixVars, soulVars, agentVars, lifeVars,
                   adminVars, lockVars, transportVars>>

\* One iteration of the loop over the new entries, under the read lock: skip
\* an entry the filters reject, else select { case <-ctx.Done(): RUnlock and
\* return; case ch <- entry: }; after the last entry lastIndex = len(s.logs)
\* and RUnlock.
StreamScan ==
    /\ strPc = "scan"
    /\ IF strIdx < Len(logs)
       THEN LET entry == logs[strIdx + 1] IN
            IF ~StreamPasses(entry, strFilters)
            THEN /\ strIdx' = strIdx + 1
                 /\ UNCHANGED <<strPc, strLast, strSent, strClosed>>
            ELSE \/ /\ strCtxDone
                    /\ StreamReturn
                    /\ UNCHANGED <<strIdx, strLast, strSent>>
                 \/ /\ strReading
                    /\ strSent' = Append(strSent, entry)
                    /\ strIdx' = strIdx + 1
                    /\ UNCHANGED <<strPc, strLast, strClosed>>
       ELSE /\ strLast' = Len(logs)
            /\ strPc' = "poll"
            /\ UNCHANGED <<strIdx, strSent, strClosed>>
    /\ UNCHANGED <<strFilters, strSnap, strCtxDone, strReading, strStart>>
    /\ UNCHANGED <<busVars, matrixVars, soulVars, agentVars, lifeVars,
                   adminVars, lockVars, transportVars>>

\* The ctx of the StreamLogs call is cancelled.
CancelStream ==
    /\ strPc # "idle"
    /\ ~strCtxDone
    /\ strCtxDone' = TRUE
    /\ UNCHANGED <<strPc, strFilters, strSnap, strLast, strIdx, strSent,
                   strReading, strStart, strClosed>>
    /\ UNCHANGED <<busVars, matrixVars, soulVars, agentVars, lifeVars,
                   adminVars, lockVars, transportVars>>

\* The consumer of ch stops receiving.
ConsumerStops ==
    /\ strPc # "idle"
    /\ strReading
    /\ strReading' = FALSE
    /\ UNCHANGED <<strPc, strFilters, strSnap, strLast, strIdx, strSent,
                   strCtxDone, strStart, strClosed>>
    /\ UNCHANGED <<busVars, matrixVars, soulVars, agentVars, lifeVars,
                   adminVars, lockVars, transportVars>>

\* a step of the StreamLogs call
StreamStep ==
    StreamSendInitial \/ StreamSnapDone \/ StreamPoll \/ StreamScan

\* --------------------------------------------------------------- Transport

\* the Subscribe calls for the topic
TSubs == 1..TopicSubs

TransportInit ==
    /\ tSubQ = <<>>
    /\ tArrived = 0
    /\ tPc = [s \in TSubs |-> "none"]
    /\ tMsg = [s \in TSubs |-> 0]
    /\ tGot = [s \in TSubs |-> <<>>]
    /\ tCtxDone = [s \in TSubs |-> FALSE]
    /\ tJoinedAt = [s \in TSubs |-> 0]
    /\ tClosed = [s \in TSubs |-> FALSE]

\* t.subs[topic] exists: some Subscribe call has made the subscription
Subscribed == \E s \in TSubs : tPc[s] # "none"

\* Transport.Subscribe(ctx, topic): join and subscribe if that has not been
\* done, else take the subscription there is; make ch and start the goroutine
\* that reads the subscription.
TransportSubscribe(s) ==
    /\ tPc[s] = "none"
    /\ tPc' = [tPc EXCEPT ![s] = "next"]
    /\ tJoinedAt' = [tJoinedAt EXCEPT ![s] = tArrived]
    /\ UNCHANGED <<tSubQ, tArrived, tMsg, tGot, tCtxDone, tClosed>>
    /\ UNCHANGED <<busVars, matrixVars, soulVars, agentVars, lifeVars,
                   adminVars, lockVars, streamVars>>

\* A message arrives on the topic: it is queued in the subscription.
Arrive(limit) ==
    /\ Subscribed
    /\ tArrived < limit
    /\ tArrived' = tArrived + 1
    /\ tSubQ' = Append(tSubQ, tArrived + 1)
    /\ UNCHANGED <<tPc, tMsg, tGot, tCtxDone, tJoinedAt, tClosed>>
    /\ UNCHANGED <<busVars, matrixVars, soulVars, agentVars, lifeVars,
                   adminVars, lockVars, streamVars>>

\* msg, err := sub.Next(ctx) in the goroutine of call s: the oldest waiting
\* message is taken out of the subscription, or, ctx being done, an error is
\* returned and the goroutine returns, closing ch.
SubNext(s) ==
    /\ tPc[s] = "next"
    /\ \/ /\ tSubQ # <<>>
          /\ tMsg' = [tMsg EXCEPT ![s] = Head(tSubQ)]
          /\ tSubQ' = Tail(tSubQ)
          /\ tPc' = [tPc EXCEPT ![s] = "send"]
          /\ UNCHANGED tClosed
       \/ /\ tCtxDone[s]
          /\ tPc' = [tPc EXCEPT ![s] = "done"]
          /\ tClosed' = [tClosed EXCEPT ![s] = TRUE]
          /\ UNCHANGED <<tMsg, tSubQ>>
    /\ UNCHANGED <<tArrived, tGot, tCtxDone, tJoinedAt>>
    /\ UNCHANGED <<busVars, matrixVars, soulVars, agentVars, lifeVars,
                   adminVars, lockVars, streamVars>>

\* select { case <-ctx.Done(): return; case ch <- Message{...}: } in the
\* goroutine of call s, the reader of ch receiving.
TransportSend(s) ==
    /\ tPc[s] = "send"
    /\ \/ /\ tCtxDone[s]
          /\ tPc' = [tPc EXCEPT ![s] = "done"]
          /\ tClosed' = [tClosed EXCEPT ![s] = TRUE]
          /\ UNCHANGED tGot
       \/ /\ tGot' = [tGot EXCEPT ![s] = Append(@, tMsg[s])]
          /\ tPc' = [tPc EXCEPT ![s] = "next"]
          /\ UNCHANGED tClosed
    /\ UNCHANGED <<tSubQ, tArrived, tMsg, tCtxDone, tJoinedAt>>
    /\ UNCHANGED <<busVars, matrixVars, soulVars, agentVars, lifeVars,
                   adminVars, lockVars, streamVars>>

\* The ctx of Subscribe call s is cancelled.
TransportCancel(s) ==
    /\ tPc[s] \in {"next", "send"}
    /\ ~tCtxDone[s]
    /\ tCtxDone' = [tCtxDone EXCEPT ![s] = TRUE]
    /\ UNCHANGED <<tSubQ, tArrived, tPc, tMsg, tGot, tJoinedAt, tClosed>>
    /\ UNCHANGED <<busVars, matrixVars, soulVars, agentVars, lifeVars,
                   adminVars, lockVars, streamVars>>

\* ------------------------------------------------------------------ specs

Init ==
    /\ BusInit
    /\ MatrixInit
    /\ SoulInit
    /\ AgentInit
    /\ LifeInit
    /\ AdminInit
    /\ LockInit
    /\ StreamInit
    /\ TransportInit

\* Every interleaving of the bus operations, from a new bus.
NextBus ==
    \/ \E t \in EventTypes : Subscribe(t, MaxSubs)
    \/ \E c \in Chans : Cancel(c)
    \/ \E c \in Chans : Unsubscribe(c)
    \/ Close
    \/ \E p \in Publishers, t \in EventTypes : PublishBegin(p, t, MaxPublish)
    \/ \E p \in Publishers : PublishSend(p)
    \/ \E p \in Publishers : PublishReturn(p)
    \/ \E c \in Chans : Receive(c)

SpecBus == Init /\ [][NextBus]_vars

\* The interleavings of one event type with publishers that publish more
\* than once, the events carrying their publisher in Event.Source.
NextOrder ==
    \/ Subscribe(FloodType, OrderSubs)
    \/ \E c \in Chans : Cancel(c)
    \/ \E c \in Chans : Unsubscribe(c)
    \/ Close
    \/ \E p \in Publishers : PublishBegin(p, FloodType, MaxOrdered)
    \/ \E p \in Publishers : PublishSend(p)
    \/ \E p \in Publishers : PublishReturn(p)
    \/ \E c \in Chans : Receive(c)

SpecOrder == Init /\ [][NextOrder]_vars

\* no Step call is in progress
StepsIdle == \A k \in Steps : stepPc[k] \in {"new", "ok", "err"}

\* Step never reads Rule.Priority: where the priorities are not what is
\* looked at, every rule is added with this one.
SamePriority == CHOOSE prio \in Priorities : TRUE

\* The rule engine driven by one goroutine that calls Step again only after
\* the previous call has returned, while rules are added at any time.
NextMatrix ==
    \/ AddRule(SamePriority)
    \/ StepsIdle /\ StepBegin(MaxSteps)
    \/ \E k \in Steps : StepEval(k)
    \/ \E k \in Steps : StepRecord(k)
    \/ \E k \in Steps : StepReturn(k)

SpecMatrix == Init /\ [][NextMatrix]_vars

\* The same, with rules of any priority.
NextPriority ==
    \/ \E prio \in Priorities : AddRule(prio)
    \/ StepsIdle /\ StepBegin(MaxSteps)
    \/ \E k \in Steps : StepEval(k)
    \/ \E k \in Steps : StepRecord(k)
    \/ \E k \in Steps : StepReturn(k)

SpecPriority == Init /\ [][NextPriority]_vars

\* The rule engine with Step called from several goroutines at once.
NextSteps ==
    \/ AddRule(SamePriority)
    \/ StepBegin(MaxSteps + 1)
    \/ \E k \in Steps : StepEval(k)
    \/ \E k \in Steps : StepRecord(k)
    \/ \E k \in Steps : StepReturn(k)

SpecSteps == Init /\ [][NextSteps]_vars

\* the evaluation Step call k has just made returned no event
NoEvents(k) == stepEvald[k] # <<>> /\ stepEvald[k][Len(stepEvald[k])].n = 0

\* The rule engine driven by one goroutine that calls Step again after a
\* call has returned (with an error or without), with rules that return no
\* events, while rules and agents are added at any time.
NextRetry ==
    \/ AddRule(SamePriority)
    \/ \E id \in AgentIds : AddAgent(id)
    \/ StepsIdle /\ StepBegin(MaxSteps + 1)
    \/ \E k \in Steps : StepEval(k) /\ NoEvents(k)'
    \/ \E k \in Steps : StepReturn(k)

SpecRetry == Init /\ [][NextRetry]_vars

\* The agent registry under any sequence of AddAgent calls.
NextAgents == \E id \in AgentIds : AddAgent(id)

SpecAgents == Init /\ [][NextAgents]_vars

\* The flood scenario: subscribers register, FloodEvents events of FloodType
\* are published one after the other while no consumer drains, then each consumer reads at most
\* MaxRecv events while up to TailEvents more events of any type are published.
InFlood ==
    \/ nextId < FloodEvents
    \/ \E p \in Publishers : pubPc[p] = "send" /\ pubEv[p].id <= FloodEvents

NextFlood ==
    \/ \E t \in EventTypes : nextId = 0 /\ Subscribe(t, MaxSubs)
    \/ InFlood /\ PublishBegin(FloodPublisher, FloodType, FloodEvents)
    \/ \E p \in Publishers, t \in EventTypes :
           ~InFlood /\ PublishBegin(p, t, FloodEvents + TailEvents)
    \/ \E p \in Publishers : PublishSend(p)
    \/ \E p \in Publishers : PublishReturn(p)
    \/ \E c \in Chans : ~InFlood /\ Len(recvd[c]) < MaxRecv /\ Receive(c)

SpecFlood == Init /\ [][NextFlood]_vars

\* The bus driven by one publishing goroutine that publishes events of one
\* type, with subscriptions of every type: the interleavings in which the
\* scheduling of the goroutines decides what a consumer eventually sees.
NextBusFair ==
    \/ \E t \in EventTypes : Subscribe(t, MaxSubs)
    \/ \E c \in Chans : Cancel(c)
    \/ \E c \in Chans : Unsubscribe(c)
    \/ Close
    \/ PublishBegin(FloodPublisher, FloodType, MaxPublish)
    \/ PublishSend(FloodPublisher)
    \/ PublishReturn(FloodPublisher)
    \/ \E c \in Chans : Receive(c)

\* That interleaving with the scheduling the Go runtime gives: a goroutine
\* that can run does run (the cleanup goroutine takes the lock once the
\* readers have left, a publisher finishes its loop), and a consumer that is
\* waiting on its channel keeps receiving.
SpecBusFair ==
    /\ Init /\ [][NextBusFair]_vars
    /\ \A c \in Chans : WF_vars(Unsubscribe(c))
    /\ \A c \in Chans : WF_vars(Receive(c))
    /\ WF_vars(PublishSend(FloodPublisher))
    /\ WF_vars(PublishReturn(FloodPublisher))

\* The memory of a Soul under concurrent AddMemory and GetMemories calls;
\* GetMemories is called with the empty tag slice.
NextMemory ==
    \/ \E th \in SoulThreads, tags \in {<<>>, <<"x">>} :
           SoulCall(th, "AddMemory", tags, "", 0, NoPersona, MaxSoulCalls)
    \/ \E th \in SoulThreads :
           SoulCall(th, "GetMemories", <<>>, "", 0, NoPersona, MaxSoulCalls)
    \/ \E th \in SoulThreads : SoulLock(th)
    \/ \E th \in SoulThreads : AddMemory(th)
    \/ \E th \in SoulThreads : GetMemories(th)

SpecMemory == Init /\ [][NextMemory]_vars

\* the goroutine of the specifications with one caller
OneThread == CHOOSE th \in SoulThreads : TRUE

\* The memory of a Soul used by one goroutine, with entries and queries of
\* every tag slice.
NextTags ==
    \/ \E tags \in TagLists :
           SoulCall(OneThread, "AddMemory", tags, "", 0, NoPersona,
                    MaxSoulCalls)
    \/ \E tags \in TagLists :
           SoulCall(OneThread, "GetMemories", tags, "", 0, NoPersona,
                    MaxSoulCalls)
    \/ SoulLock(OneThread)
    \/ AddMemory(OneThread)
    \/ GetMemories(OneThread)

SpecTags == Init /\ [][NextTags]_vars

\* The value map of a Soul under concurrent SetValue and GetValue calls.
NextValues ==
    \/ \E th \in SoulThreads, k \in Keys, v \in Floats :
           SoulCall(th, "SetValue", <<>>, k, v, NoPersona, MaxSoulCalls)
    \/ \E th \in SoulThreads, k \in Keys :
           SoulCall(th, "GetValue", <<>>, k, 0, NoPersona, MaxSoulCalls)
    \/ \E th \in SoulThreads : SoulLock(th)
    \/ \E th \in SoulThreads : SetValue(th)
    \/ \E th \in SoulThreads : GetValue(th)

SpecValues == Init /\ [][NextValues]_vars

\* the key and the persona of the calls where one of each is enough
OneKey == CHOOSE k \in Keys : TRUE

OnePersona == CHOOSE p \in Personas : TRUE

\* A Soul with every method called concurrently.
NextSoul ==
    \/ \E th \in SoulThreads :
           SoulCall(th, "AddMemory", <<>>, "", 0, NoPersona, MaxSoulCalls)
    \/ \E th \in SoulThreads :
           SoulCall(th, "GetMemories", <<>>, "", 0, NoPersona, MaxSoulCalls)
    \/ \E th \in SoulThreads, v \in Floats :
           SoulCall(th, "SetValue", <<>>, OneKey, v, NoPersona, MaxSoulCalls)
    \/ \E th \in SoulThreads :
           SoulCall(th, "GetValue", <<>>, OneKey, 0, NoPersona, MaxSoulCalls)
    \/ \E th \in SoulThreads :
           SoulCall(th, "UpdatePersona", <<>>, "", 0, OnePersona, MaxSoulCalls)
    \/ \E th \in SoulThreads :
           SoulCall(th, "GetPersona", <<>>, "", 0, NoPersona, MaxSoulCalls)
    \/ \E th \in SoulThreads : SoulLock(th)
    \/ \E th \in SoulThreads : AddMemory(th)
    \/ \E th \in SoulThreads : GetMemories(th)
    \/ \E th \in SoulThreads : SetValue(th)
    \/ \E th \in SoulThreads : GetValue(th)
    \/ \E th \in SoulThreads : UpdatePersona(th)
    \/ \E th \in SoulThreads : GetPersona(th)

SpecSoul == Init /\ [][NextSoul]_vars

\* One call of agent.New, with any limits and any buffer size.
NextNew ==
    \/ \E pages \in PageCounts, fuel \in Fuels, memSize \in MemSizes :
           NewValidate(pages, fuel, memSize)
    \/ NewRuntime
    \/ NewCompile
    \/ NewInstantiate
    \/ NewBuffer

SpecNew == Init /\ [][NextNew]_vars

\* One call of agent.New, and then the host calls of the Agent's guest.
NextHost ==
    \/ NextNew
    \/ \E o, n \in HostArgs : hostLog(o, n, MaxHostCalls)
    \/ \E to, tn, mo, mn \in HostArgs : hostSend(to, tn, mo, mn, MaxHostCalls)
    \/ \E o, n \in HostArgs : hostGetMemory(o, n, MaxHostCalls)
    \/ \E o, n \in HostArgs : hostSetMemory(o, n, MaxHostCalls)

SpecHost == Init /\ [][NextHost]_vars

\* An Agent is made, started, and stopped, possibly more than once.
NextLife ==
    \/ NextNew
    \/ \E prog \in Programs : Start(prog)
    \/ GuestStep(MaxGuestSteps)
    \/ StartReturn
    \/ StopModule(MaxStops)
    \/ StopRuntime

SpecLife == Init /\ [][NextLife]_vars

\* Keys are registered and removed, and requests are authenticated and
\* authorized, in any order.
NextAuth ==
    \/ \E key \in KeyStrings, role \in Roles : AddKey(key, role)
    \/ \E key \in KeyStrings : RemoveKey(key)
    \/ \E ctx \in Contexts : Authenticate(ctx)
    \/ \E role \in Roles, perm \in Permissions : Authorize(role, perm)
    \/ \E ctx \in Contexts, perm \in Permissions : CheckPermission(ctx, perm)

SpecAuth == Init /\ [][NextAuth]_vars

\* Callers of a service: without metadata, without an authorization value, with
\* the key as it is and after "Bearer ", and with a string that is no key.
Callers ==
    {NoMetadata, [md |-> TRUE, auth |-> <<>>], [md |-> TRUE, auth |-> <<KeyK>>],
     [md |-> TRUE, auth |-> <<Bearer \o KeyK>>],
     [md |-> TRUE, auth |-> <<<<"x">>>>]}

\* The three roles are given to and taken from one key while agents are
\* deployed by callers of every kind.
NextDeploy ==
    \/ \E role \in Roles : AddKey(KeyK, role)
    \/ RemoveKey(KeyK)
    \/ \E ctx \in Contexts, id \in DeployIds : DeployAgent(ctx, id)

SpecDeploy == Init /\ [][NextDeploy]_vars

\* Every operation of the DeployService on the ids, by one caller.
NextDeployments ==
    \/ \E id \in DeployIds : DeployAgent(NoMetadata, id)
    \/ \E id \in DeployIds : DeployMatrix(NoMetadata, id)
    \/ \E id \in DeployIds : GetDeployment(id)
    \/ \E id \in DeployIds : StopDeployment(NoMetadata, id)
    \/ \E id \in DeployIds : RemoveDeployment(NoMetadata, id)

SpecDeployments == Init /\ [][NextDeployments]_vars

\* Entries are logged, and read by callers of every kind, the holder of a
\* key that is made an admin's or an operator's among them.
NextLogs ==
    \/ \E role \in {RoleAdmin, RoleOperator} : AddKey(KeyK, role)
    \/ \E level \in Levels, component \in Components :
            AddLog(level, component, MaxLogEntries)
    \/ \E ctx \in Callers, filters \in Filters : GetLogs(ctx, filters)

SpecLogs == Init /\ [][NextLogs]_vars

\* The buffer is filled to one entry below maxLogs with entries of one kind;
\* then LogTail entries of every kind are added, and the logs are read.
LogFlood == maxLogs - 1

InLogFlood == logCalls < LogFlood

FloodFilters ==
    [level : {"", "error"}, component : {""}, since : {0}, until : {0},
     limit : {0, 1}]

NextLogFlood ==
    \/ AddLogBurst("info", "admin", LogFlood)
    \/ \E level \in Levels, component \in Components :
           ~InLogFlood /\ AddLog(level, component, LogFlood + LogTail)
    \/ \E filters \in FloodFilters :
           ~InLogFlood /\ GetLogs(NoMetadata, filters)

SpecLogFlood == Init /\ [][NextLogFlood]_vars

StreamFilters ==
    [level : {"", "info"}, component : {""}, since : {0}, until : {0},
     limit : {0}]

\* One StreamLogs call, with a consumer that may stop receiving, while
\* entries are logged.
NextStream ==
    \/ \E level \in Levels : AddLog(level, "admin", MaxLogEntries)
    \/ \E filters \in StreamFilters : StreamLogs(NoMetadata, filters)
    \/ StreamSendInitial
    \/ StreamSnapDone
    \/ StreamPoll
    \/ StreamScan
    \/ CancelStream
    \/ ConsumerStops

SpecStream == Init /\ [][NextStream]_vars

\* Subscribe calls for one topic, messages arriving, and cancellations.
NextTransport ==
    \/ \E s \in TSubs : TransportSubscribe(s)
    \/ Arrive(MaxMessages)
    \/ \E s \in TSubs : SubNext(s)
    \/ \E s \in TSubs : TransportSend(s)
    \/ \E s \in TSubs : TransportCancel(s)

SpecTransport == Init /\ [][NextTransport]_vars

\* Permissions interceptors are made for: one of the deployments', and the
\* two of the logs.
Guarded == {PermissionDeployAgent, PermissionReadLogs, PermissionReadSensitive}

\* RPCs of every kind go through the four interceptors.
NextRpc ==
    \/ \E role \in Roles : AddKey(KeyK, role)
    \/ RemoveKey(KeyK)
    \/ \E kind \in {"UnaryAuthInterceptor", "StreamAuthInterceptor"},
          perm \in Guarded, method \in Methods, ctx \in Callers,
          h \in HandlerCodes :
            Intercept(kind, perm, method, ctx, h)
    \/ \E kind \in {"requireAuthUnaryInterceptor",
                    "requireAuthStreamInterceptor"},
          method \in Methods, ctx \in Callers, h \in HandlerCodes :
            Intercept(kind, "", method, ctx, h)

SpecRpc == Init /\ [][NextRpc]_vars

\* the agent id of the calls where one is enough
OneAgent == CHOOSE a \in AgentIds : TRUE

\* A Matrix with every method called by two goroutines, from inside rule
\* evaluations too, with rules that return no events.
NextLocks ==
    \/ \E th \in MatrixThreads : MatrixCall(th, "AddRule", "", MaxMatrixCalls)
    \/ \E th \in MatrixThreads :
           MatrixCall(th, "AddAgent", OneAgent, MaxMatrixCalls)
    \/ \E th \in MatrixThreads :
           MatrixCall(th, "GetAgent", OneAgent, MaxMatrixCalls)
    \/ \E th \in MatrixThreads : MatrixCall(th, "Step", "", MaxMatrixCalls)
    \/ \E th \in MatrixThreads : MatrixLock(th)
    \/ \E th \in MatrixThreads : LockedAddRule(th, SamePriority)
    \/ \E th \in MatrixThreads : LockedAddAgent(th)
    \/ \E th \in MatrixThreads : LockedGetAgent(th)
    \/ \E th \in MatrixThreads : LockedStepCopy(th)
    \/ \E th \in MatrixThreads, failed \in BOOLEAN : StepLoop(th, 0, failed)
    \/ \E th \in MatrixThreads : StepDone(th)

SpecLocks == Init /\ [][NextLocks]_vars

\* ------------------------------------------------------------------ claims

\* the channels registered in the subscriber table
Registered == UNION {Range(subscribers[t]) : t \in EventTypes}

\* publisher p has tried every channel of its slice and not yet returned
LoopDone(p) == pubPc[p] = "send" /\ pubIdx[p] > Len(pubSubs[p])

\* the number of copies of the event with serial id in the sequence s
Copies(id, s) == Cardinality({i \in 1..Len(s) : s[i].id = id})

\* C1: Publish never blocks and never fails: no panic is raised, a publisher
\* inside Publish can always take its next step, no queue ever holds more
\* than QueueCap events, a send is dropped only on a queue holding QueueCap
\* events and the dropped event never shows up on that subscription later,
\* and of the FloodEvents events of the flood at most QueueCap reach a
\* subscriber that did not drain.
C1_PublishNeverBlocksDropsWhenFull ==
    /\ ~busPanic
    /\ \A p \in Publishers :
           pubPc[p] = "send" => ENABLED (PublishSend(p) \/ PublishReturn(p))
    /\ \A c \in Chans : Len(buf[c]) <= QueueCap
    /\ \A d \in dropLog :
           /\ d.qlen = QueueCap
           /\ d.id \notin Ids(Enq(d.ch))
    /\ \A c \in Chans :
           Cardinality({id \in Ids(Enq(c)) : id <= FloodEvents}) <= QueueCap

\* C1 witness: the flood is over, an event of the flood was dropped for a
\* subscriber, that subscriber has since read from its queue, and a later
\* event has been enqueued behind the backlog.
C1_Witness ==
    \E d \in dropLog :
        /\ d.id <= FloodEvents
        /\ nextId > FloodEvents
        /\ recvd[d.ch] # <<>>
        /\ \E i \in 1..Len(buf[d.ch]) : buf[d.ch][i].id > FloodEvents

\* C2: when Publish(e) has finished its loop, every subscriber registered for
\* e.Type holds exactly one copy of e, or none if its queue held QueueCap
\* events when e was offered to it; no subscriber registered for another
\* type holds a copy.
C2_FanOutToEveryLiveSubscriber ==
    \A p \in Publishers :
        LoopDone(p) =>
            LET e == pubEv[p] IN
            /\ pubSubs[p] = subscribers[e.type]
            /\ \A c \in Chans :
                   IF c \in Range(subscribers[e.type])
                   THEN \/ Copies(e.id, Enq(c)) = 1
                        \/ /\ Copies(e.id, Enq(c)) = 0
                           /\ [ch |-> c, id |-> e.id, qlen |-> QueueCap]
                                  \in dropLog
                   ELSE Copies(e.id, Enq(c)) = 0

\* C2 witness: a Publish has finished whose event was dropped for a full
\* subscriber and delivered to a subscriber of the same type that comes
\* after it in the slice.
C2_Witness ==
    \E p \in Publishers :
        /\ LoopDone(p)
        /\ \E i, j \in 1..Len(pubSubs[p]) :
               /\ i < j
               /\ Copies(pubEv[p].id, Enq(pubSubs[p][i])) = 0
               /\ Copies(pubEv[p].id, Enq(pubSubs[p][j])) = 1

\* C3: a Close step closes every channel that is registered when it is
\* called and leaves the table empty; and the consumer of every subscription
\* made before a Close reaches the end of its sequence, whether or not the
\* subscription's cancel signal fires.
C3_CloseEndsEverySubscription ==
    /\ [][Close => /\ \A c \in Registered : chState'[c] = "closed"
                   /\ \A t \in EventTypes : subscribers'[t] = <<>>]_vars
    /\ \A c \in Chans :
           (busClosed /\ c <= closedAt) ~> (cons[c] = "eos")

\* C3 witness: the bus was closed, and the consumer of a subscription whose
\* cancel signal has not fired has seen the end of its sequence after
\* reading an event.
C3_Witness ==
    \E c \in Chans :
        /\ busClosed
        /\ ~ctxDone[c]
        /\ cons[c] = "eos"
        /\ recvd[c] # <<>>

\* subscription c has been closed and cut out of the table
Removed(c) == chState[c] = "closed" /\ c \notin Registered

\* C4: once the cancel signal of a subscription has fired its channel is
\* eventually closed and out of the table; a removed subscription is never
\* enqueued onto again; and the unsubscribe step leaves every other
\* subscription registered, in the same order, and as open as it was.
C4_CancelRemovesOnlyThatSubscription ==
    /\ \A c \in Chans : ctxDone[c] ~> Removed(c)
    /\ [][\A c \in Chans :
              Removed(c) => Enq(c)' = Enq(c) /\ Removed(c)']_vars
    /\ [][\A c \in Chans :
              Unsubscribe(c) =>
                  /\ \A d \in Chans \ {c} : chState'[d] = chState[d]
                  /\ \A t \in EventTypes :
                         subscribers'[t] =
                             SelectSeq(subscribers[t], LAMBDA d : d # c)]_vars

\* C4 witness: a cancelled subscription has been removed by its goroutine
\* while another subscription of the same type is still registered and open,
\* and an event was published after the removal.
C4_Witness ==
    \E c, d \in Chans :
        /\ c # d
        /\ gor[c] = "exited"
        /\ Removed(c)
        /\ ~busClosed
        /\ chType[c] = chType[d]
        /\ d \in Registered
        /\ chState[d] = "open"
        /\ Len(Enq(d)) > Len(Enq(c))

\* C5 as stated: once Close has been called no subscriber queue is ever
\* enqueued onto again, and no panic is raised.
C5_PublishAfterCloseIsNoOp ==
    [][busClosed =>
           /\ \A c \in Chans : Enq(c)' = Enq(c)
           /\ ~busPanic']_vars

\* C5 amended: once Close has been called, no subscription made before the
\* latest Close is ever enqueued onto again (so a Publish is a no-op as long
\* as no Subscribe has followed the Close), and no panic is raised.
C5_PublishAfterCloseSkipsOldSubscriptions ==
    [][busClosed =>
           /\ \A c \in Chans : c <= closedAt => Enq(c)' = Enq(c)
           /\ (nextCh = closedAt => \A c \in Chans : Enq(c)' = Enq(c))
           /\ ~busPanic']_vars

\* C5 witness: a Publish made after Close, with no Subscribe in between, has
\* finished while a subscription made before the Close exists.
C5_Witness ==
    \E p \in Publishers :
        /\ busClosed
        /\ closedAt > 0
        /\ nextCh = closedAt
        /\ LoopDone(p)

\* the events of Step call k in a log, in the log's order
OfStep(log, k) == SelectSeq(log, LAMBDA e : e.step = k)

\* the events returned by the evaluations evs of Step call k that did not
\* fail, in evaluation order and, within one evaluation, in returned order
RECURSIVE ReturnedBy(_, _)
ReturnedBy(k, evs) ==
    IF evs = <<>> THEN <<>>
    ELSE LET ev == Head(evs) IN
         (IF ev.failed THEN <<>> ELSE RuleEvents(k, ev.rule, ev.n))
             \o ReturnedBy(k, Tail(evs))

Returned(k) == ReturnedBy(k, stepEvald[k])

\* C6: in every Step call the rules are evaluated by descending priority,
\* rules of equal priority in the order AddRule added them (a rule's ID is
\* its position in that order).
C6_EvaluatesByDescendingPriority ==
    \A k \in Steps :
        \A i, j \in 1..Len(stepEvald[k]) :
            i < j =>
                LET a == rules[stepEvald[k][i].rule]
                    b == rules[stepEvald[k][j].rule]
                IN  \/ a.priority > b.priority
                    \/ a.priority = b.priority /\ a.id < b.id

\* C7: a failed evaluation is the last evaluation of its Step call, the call
\* returns an error naming the failed rule, the rules evaluated are the
\* snapshot's up to the failed one, and the events of the rules evaluated
\* before it are in the metrics sink then and ever after.
C7_FailureAbortsStepWithoutRollback ==
    \A k \in Steps :
        LET evs == stepEvald[k]
            m == Len(evs)
        IN  /\ \A i \in 1..m : evs[i].failed => i = m /\ stepPc[k] = "err"
            /\ stepPc[k] = "err" =>
                   /\ m >= 1
                   /\ evs[m].failed
                   /\ stepErr[k] = evs[m].rule
                   /\ m <= Len(stepRules[k])
                   /\ \A i \in 1..m : evs[i].rule = stepRules[k][i].id
                   /\ OfStep(metricsLog, k) = Returned(k)

\* C7 witness: a Step call over three rules has returned the error of the
\* second rule after the first rule's events were recorded.
C7_Witness ==
    \E k \in Steps :
        /\ stepPc[k] = "err"
        /\ Len(stepRules[k]) = 3
        /\ Len(stepEvald[k]) = 2
        /\ stepErr[k] = stepRules[k][2].id
        /\ OfStep(metricsLog, k) # <<>>

\* C8: when a Step call has returned, the events it handed to
\* EventBus.Publish are the events its successfully evaluated rules
\* returned, in that order.
C8_StepPublishesOnEventBus ==
    \A k \in Steps :
        stepPc[k] \in {"ok", "err"} => OfStep(busLog, k) = Returned(k)

\* C9: the metrics sink holds, for every Step call, exactly the events its
\* successfully evaluated rules returned, in evaluation order and in returned
\* order, all of them whenever the call is between two rules or has returned,
\* and all but the ones still to be recorded while it records a rule's events.
C9_MetricsSinkGetsEveryEventInOrder ==
    \A k \in Steps :
        LET all == Returned(k)
            pending == IF stepPc[k] = "record"
                       THEN Len(stepEvents[k]) - stepRec[k] + 1
                       ELSE 0
        IN  OfStep(metricsLog, k) = SubSeq(all, 1, Len(all) - pending)

\* C9 witness: a Step call has returned nil after two rules returned events,
\* one of them more than one.
C9_Witness ==
    \E k \in Steps :
        /\ stepPc[k] = "ok"
        /\ \E i, j \in 1..Len(stepEvald[k]) :
               /\ i < j
               /\ stepEvald[k][i].n >= 2
               /\ stepEvald[k][j].n >= 1
        /\ Len(OfStep(metricsLog, k)) >= 3

\* C10: an AddAgent call fails exactly when an earlier call passed the same
\* id, and GetAgent returns for every id the agent of the first call that
\* passed it, and nothing for an id no call passed.
C10_AddAgentKeepsFirstAgent ==
    /\ \A i \in 1..Len(addLog) :
           addLog[i].ok = ~(\E j \in 1..(i - 1) : addLog[j].id = addLog[i].id)
    /\ \A id \in AgentIds :
           LET calls == {i \in 1..Len(addLog) : addLog[i].id = id} IN
           IF calls = {}
           THEN GetAgent(id) = <<NoAgent, FALSE>>
           ELSE LET first == CHOOSE i \in calls : \A j \in calls : i <= j
                IN  GetAgent(id) = <<addLog[first].obj, TRUE>>

\* C10 witness: an id was added, added again (which failed), and another id
\* was added after that.
C10_Witness ==
    /\ Len(addLog) >= 3
    /\ addLog[1].id = addLog[2].id
    /\ ~addLog[2].ok
    /\ addLog[3].id # addLog[1].id
    /\ addLog[3].ok

\* Step call k is between its snapshot and its return
Stepping(k) == stepPc[k] \in {"eval", "record"}

\* C11: two Step calls on the Matrix never evaluate rules at the same time:
\* no Step call evaluates a rule while another Step call is between its
\* snapshot and its return.
C11_StepCallsNeverOverlap ==
    [][\A k \in Steps :
           StepEval(k) => \A j \in Steps \ {k} : ~Stepping(j)]_vars

\* a step of some Step call
StepStep ==
    \/ StepBegin(MaxSteps + 1)
    \/ \E k \in Steps : StepEval(k) \/ StepRecord(k) \/ StepReturn(k)

\* C12: a rule failure affects only its Step: no step of a Step call (the
\* failed evaluation included) changes the rule list or the agent registry,
\* the call made after a call that returned an error starts on a snapshot of
\* the whole rule list at its first position, and what it evaluates is the
\* rule list from its start, in order.
C12_FailureLeavesMatrixUsable ==
    /\ [][StepStep => UNCHANGED <<rules, agents>>]_vars
    /\ [][\A k \in Steps \ {1} :
              (stepPc[k - 1] = "err" /\ stepPc[k] = "new" /\ stepPc'[k] # "new")
                  => /\ stepPc'[k] = "eval"
                     /\ stepRules'[k] = rules
                     /\ stepIdx'[k] = 1]_vars
    /\ [](\A k \in Steps \ {1} :
              stepPc[k - 1] = "err" =>
                  /\ Len(stepEvald[k]) <= Len(rules)
                  /\ \A i \in 1..Len(stepEvald[k]) :
                         stepEvald[k][i].rule = rules[i].id)

\* C12 witness: a Step call returned an error at its second rule, an agent
\* is registered, and the next call has evaluated the first two rules.
C12_Witness ==
    \E k \in Steps \ {1} :
        /\ stepPc[k - 1] = "err"
        /\ Len(stepEvald[k - 1]) = 2
        /\ \E a \in AgentIds : agents[a] # NoAgent
        /\ Len(stepEvald[k]) >= 2
        /\ ~stepEvald[k][1].failed

\* the serials of the entries of a memory, in order
Serials(mem) == [i \in 1..Len(mem) |-> mem[i].ts]

\* sequence s is an initial part of sequence t
IsPrefix(s, t) == Len(s) <= Len(t) /\ \A i \in 1..Len(s) : s[i] = t[i]

\* C13: GetMemories with an empty tag slice returns every appended entry
\* exactly once: the memory holds one entry for each AddMemory call that has
\* returned and no other, an entry whose call returned before another call
\* was made comes before that call's entry, GetMemories(no tags) returns the
\* memory as it is, and what it returned stays an initial part of the memory.
C13_GetMemoriesReturnsEveryEntryOnceInOrder ==
    /\ [](Range(Serials(memory)) = memDone)
    /\ [](Len(memory) = Cardinality(memDone))
    /\ [](\A i, j \in 1..Len(memory) :
              memory[j].ts \in memPrior[memory[i].ts] => j < i)
    /\ [][\A th \in SoulThreads :
              (GetMemories(th) /\ soulOp[th].tags = <<>>)
                  => soulRet'[th].mem = memory]_vars
    /\ [](\A th \in SoulThreads :
              soulRet[th].op = "GetMemories" => IsPrefix(soulRet[th].mem, memory))

\* C13 witness: two AddMemory calls overlapped and the later call's entry was
\* appended first; a GetMemories call with no tags returned both entries.
C13_Witness ==
    \E th \in SoulThreads :
        /\ soulRet[th].op = "GetMemories"
        /\ Len(soulRet[th].mem) = 2
        /\ soulRet[th].mem[1].ts > soulRet[th].mem[2].ts

\* the tags of a tag slice
TagSet(tags) == Range(tags)

\* C14: GetMemories with a non-empty tag slice T returns exactly the stored
\* entries whose tag set shares a tag with T, in append order and each once:
\* an entry without tags is never returned.
C14_GetMemoriesAnyMatch ==
    /\ [][(GetMemories(OneThread) /\ soulOp[OneThread].tags # <<>>)
              => soulRet'[OneThread].mem =
                     SelectSeq(memory,
                         LAMBDA e : TagSet(e.tags) \cap
                                    TagSet(soulOp[OneThread].tags) # {})]_vars
    /\ [][(GetMemories(OneThread) /\ soulOp[OneThread].tags # <<>>)
              => \A i \in 1..Len(soulRet'[OneThread].mem) :
                     soulRet'[OneThread].mem[i].tags # <<>>]_vars

\* C14 witness: of two stored entries GetMemories with two tags returned only
\* the second one, whose tag slice holds one of the two tags.
C14_Witness ==
    /\ Len(memory) = 2
    /\ soulPc[OneThread] = "idle"
    /\ soulOp[OneThread].op = "GetMemories"
    /\ Len(soulOp[OneThread].tags) = 2
    /\ soulOp[OneThread].tags[1] # soulOp[OneThread].tags[2]
    /\ soulRet[OneThread].mem = <<memory[2]>>
    /\ Len(memory[2].tags) = 1

\* the SetValue calls on key k, in the order they held valuesMu
SetsOf(k) == SelectSeq(setLog, LAMBDA w : w.key = k)

\* C15: GetValue(k) returns (v, true) with v the value of the most recent
\* SetValue(k, v), a value of 0 included, and found = false for a key never
\* set; SetValue on one key changes no other key's lookup.
C15_GetValueLastWriteWins ==
    /\ [][\A th \in SoulThreads :
              GetValue(th) =>
                  LET w == SetsOf(soulOp[th].key) IN
                  IF w = <<>>
                  THEN ~soulRet'[th].ok
                  ELSE /\ soulRet'[th].ok
                       /\ soulRet'[th].val = w[Len(w)].val]_vars
    /\ [][\A th \in SoulThreads :
              SetValue(th) =>
                  \A k \in Keys \ {soulOp[th].key} :
                      Lookup(values', k) = Lookup(values, k)]_vars

\* C15 witness: a key was set to 1 and then to 0, another key was never set,
\* and a GetValue of the first key has returned (0, true).
C15_Witness ==
    \E th \in SoulThreads, k \in Keys :
        /\ soulPc[th] = "idle"
        /\ soulOp[th].op = "GetValue"
        /\ soulOp[th].key = k
        /\ Len(SetsOf(k)) = 2
        /\ SetsOf(k)[1].val = 1
        /\ soulRet[th].val = 0
        /\ soulRet[th].ok

\* the attribute group a method works on
Group(op) ==
    CASE op \in {"AddMemory", "GetMemories"} -> "memory"
      [] op \in {"SetValue", "GetValue"} -> "values"
      [] op \in {"UpdatePersona", "GetPersona"} -> "persona"

\* C16: the memory, value and persona groups of a Soul are synchronized
\* independently: a goroutine in front of a method's lock takes it whenever
\* the goroutines inside a method are all inside methods of other groups,
\* a goroutine inside a method can always finish it, and no goroutine ever
\* holds two of the three mutexes.
C16_GroupsLockIndependently ==
    /\ \A th \in SoulThreads :
           (/\ soulPc[th] = "called"
            /\ \A o \in SoulThreads \ {th} :
                   soulPc[o] = "locked" =>
                       Group(soulOp[o].op) # Group(soulOp[th].op))
               => ENABLED SoulLock(th)
    /\ \A th \in SoulThreads :
           soulPc[th] = "locked" =>
               ENABLED (\/ AddMemory(th) \/ GetMemories(th) \/ SetValue(th)
                        \/ GetValue(th) \/ UpdatePersona(th) \/ GetPersona(th))
    /\ \A th \in SoulThreads : Cardinality(Held(th)) <= 1

\* C16 witness: one goroutine is inside AddMemory holding memoryMu while the
\* other, which called after it, is inside SetValue holding valuesMu.
C16_Witness ==
    \E th, o \in SoulThreads :
        /\ Inside(th, "AddMemory")
        /\ Held(th) = {"memoryMu"}
        /\ Inside(o, "SetValue")
        /\ Held(o) = {"valuesMu"}

\* New was called with a page count outside 1..65536
BadPages == newLimits.pages = 0 \/ newLimits.pages > MaxPages

\* nothing has been created by New
NothingCreated ==
    /\ ~agRuntime
    /\ ~agHostModule
    /\ ~agModule
    /\ agMemory = NoBuffer

\* C17: New with MaxMemoryPages = 0 or MaxMemoryPages > 65536 returns an
\* error before any runtime, host module, guest instance or working buffer
\* has been created.
C17_BadPagesRejectedBeforeAllocation ==
    (newPc # "idle" /\ BadPages)
        => /\ newPc = "failed"
           /\ newErr = "invalid resource limits"
           /\ NothingCreated

\* C17 witness: New has returned the limits error for 65537 pages.
C17_Witness ==
    /\ newPc = "failed"
    /\ newLimits.pages = MaxPages + 1
    /\ newErr = "invalid resource limits"

\* C18: New with MaxFuel = 0 returns the limits error before anything has
\* been created.
C18_ZeroFuelRejected ==
    (newPc # "idle" /\ newLimits.fuel = 0)
        => /\ newPc = "failed"
           /\ newErr = "invalid resource limits"
           /\ NothingCreated

\* an offset and a length reach beyond the memory of the Agent's page bound
Beyond(offset, length) ==
    LET end == offset + length IN
    \/ end \div PageSize > newLimits.pages
    \/ end \div PageSize = newLimits.pages /\ end % PageSize > 0

\* the last host call was given a pair reaching beyond the memory
LastBeyond ==
    \/ /\ hostLast.fn \in {"log", "get_memory", "set_memory"}
       /\ Beyond(hostLast.args[1], hostLast.args[2])
    \/ /\ hostLast.fn = "send"
       /\ \/ Beyond(hostLast.args[1], hostLast.args[2])
          \/ Beyond(hostLast.args[3], hostLast.args[4])

\* C19: a host call given an offset and length reaching beyond the memory
\* fails with a trap and reads or writes nothing.
C19_OutOfBoundsHostCallTraps ==
    LastBeyond => hostTrap /\ hostAccess = 0

\* C20: the working buffer New makes has MaxMemoryPages * 65536 bytes when
\* MemSize is 0 (a length of hi * 2^16 + lo bytes with lo < 2^16 is that
\* many bytes exactly when hi is the page count and lo is 0), and MemSize
\* bytes otherwise.
C20_BufferSizeDefaultsToPages ==
    newPc = "done" =>
        /\ agMemory.made
        /\ IF newMemSize = Bytes(0, 0)
           THEN agMemory.len.hi = newLimits.pages /\ agMemory.len.lo = 0
           ELSE agMemory.len = newMemSize

\* C21: Stop closes the guest module instance and its runtime exactly once
\* each: once a Stop call has returned, with or without an error, neither is
\* open, and no sequence of Stop calls has called Close on either of them
\* more than once.
C21_StopClosesBothExactlyOnce ==
    /\ stopCalls > 0 /\ stopPc = "idle" => moduleClosed /\ runtimeClosed
    /\ moduleCloses <= 1
    /\ runtimeCloses <= 1

\* C22: the guest run by Start never consumes more than MaxFuel: a program
\* that would is stopped, and Start returns.
C22_StartBoundedByFuel ==
    startPc # "idle" => fuelUsed <= newLimits.fuel

\* the strings that are left of v when a leading "Bearer " is taken away
AfterBearer(v) == {t \in {SubSeq(v, i, Len(v)) : i \in 1..(Len(v) + 1)} :
                     v = Bearer \o t}

\* the key string a request's authorization value stands for, where a
\* leading "Bearer " is removed whenever the value has one
OneBearerRemoved(v) ==
    IF AfterBearer(v) # {} THEN CHOOSE t \in AfterBearer(v) : TRUE ELSE v

\* the key string a request's authorization value stands for, where a
\* leading "Bearer " is removed when something follows it
BearerRemovedFromLonger(v) ==
    IF AfterBearer(v) \ {<<>>} # {}
    THEN CHOOSE t \in AfterBearer(v) \ {<<>>} : TRUE
    ELSE v

\* C23 as stated: Authenticate returns the role of the registered key that
\* equals the first authorization value with one leading "Bearer " removed
\* if present, and ErrUnauthorized with an empty role when there is no
\* metadata, no authorization value, or no such key.
C23_AuthenticateRemovesBearerPrefix ==
    authLast.op = "Authenticate" =>
        LET c == authLast.ctx
        IN IF c.md /\ Len(c.auth) > 0
              /\ OneBearerRemoved(c.auth[1]) \in DOMAIN keys
           THEN /\ authLast.ret = keys[OneBearerRemoved(c.auth[1])]
                /\ authLast.err = ""
           ELSE /\ authLast.ret = ""
                /\ authLast.err = ErrUnauthorized

\* C23 amended: Authenticate returns the role of the registered key that
\* equals the first authorization value, with one leading "Bearer " removed
\* when the value is longer than that prefix (the value "Bearer " itself
\* is looked up as it is), and ErrUnauthorized with an empty role when there
\* is no metadata, no authorization value, or no such key.
C23_AuthenticateRemovesBearerBeforeToken ==
    authLast.op = "Authenticate" =>
        LET c == authLast.ctx
        IN IF c.md /\ Len(c.auth) > 0
              /\ BearerRemovedFromLonger(c.auth[1]) \in DOMAIN keys
           THEN /\ authLast.ret = keys[BearerRemovedFromLonger(c.auth[1])]
                /\ authLast.err = ""
           ELSE /\ authLast.ret = ""
                /\ authLast.err = ErrUnauthorized

C23_Witness ==
    /\ authLast.op = "Authenticate"
    /\ authLast.ctx.md
    /\ authLast.ctx.auth = <<Bearer \o KeyK>>
    /\ {KeyK, Bearer \o KeyK} \subseteq DOMAIN keys
    /\ keys[KeyK] # keys[Bearer \o KeyK]
    /\ authLast.ret = keys[KeyK]
    /\ authLast.err = ""

\* C24: Authorize succeeds exactly when the role is admin, or operator and
\* the permission is not logs:sensitive, or viewer and the permission is
\* logs:read; in every other case, any other role included, it returns
\* ErrForbidden.
C24_AuthorizeFollowsRolePermissions ==
    authLast.op = "Authorize" =>
        IF \/ authLast.role = "admin"
           \/ authLast.role = "operator" /\ authLast.perm # "logs:sensitive"
           \/ authLast.role = "viewer" /\ authLast.perm = "logs:read"
        THEN authLast.err = ""
        ELSE authLast.err = ErrForbidden

C24_Witness ==
    /\ authLast.op = "Authorize"
    /\ authLast.role = "operator"
    /\ authLast.perm = "logs:sensitive"
    /\ authLast.err = ErrForbidden

\* C25: CheckPermission returns ErrUnauthorized (and no role) whenever
\* authentication fails, whatever the permission; ErrForbidden and an empty
\* role when the caller authenticates but the role lacks the permission; and
\* the caller's role with no error only when both checks pass.
C25_CheckPermissionAuthenticatesThenAuthorizes ==
    authLast.op = "CheckPermission" =>
        LET a == AuthenticateResult(keys, authLast.ctx)
        IN /\ a.err # "" =>
                authLast.err = ErrUnauthorized /\ authLast.ret = ""
           /\ a.err = "" /\ AuthorizeResult(a.role, authLast.perm) # "" =>
                authLast.err = ErrForbidden /\ authLast.ret = ""
           /\ authLast.err = "" =>
                /\ a.err = ""
                /\ AuthorizeResult(a.role, authLast.perm) = ""
                /\ authLast.ret = a.role

C25_Witness ==
    /\ authLast.op = "CheckPermission"
    /\ AuthenticateResult(keys, authLast.ctx).role = "viewer"
    /\ authLast.perm = "deploy:agent"
    /\ authLast.err = ErrForbidden
    /\ authLast.ret = ""

\* C26: a DeployAgent call whose caller has no valid credentials fails with
\* ErrUnauthorized, one whose caller's role lacks deploy:agent fails with
\* ErrForbidden, and neither creates or changes a deployment.
C26_DeployAgentChecksPermission ==
    [][deployLast' # deployLast =>
        LET denied == CheckPermissionResult(keys, deployLast'.ctx,
                                            PermissionDeployAgent).err
        IN denied # "" =>
            deployLast'.err = denied /\ deployments' = deployments]_vars

\* C27: a GetLogs call whose caller has no valid credentials fails with
\* ErrUnauthorized, and one filtered on the component "admin" by a caller
\* whose role lacks logs:sensitive fails with ErrForbidden; neither returns
\* an entry.
C27_GetLogsChecksPermission ==
    [][logsLast' # logsLast =>
        LET call == logsLast'
            role == AuthenticateResult(keys, call.ctx)
        IN /\ role.err # "" =>
                call.err = ErrUnauthorized /\ call.result = <<>>
           /\ /\ role.err = ""
              /\ call.filters.component = "admin"
              /\ AuthorizeResult(role.role, PermissionReadSensitive) # ""
              => call.err = ErrForbidden /\ call.result = <<>>]_vars

\* the RPC is the health check the interceptor lets through unchecked
Exempt(rpc) ==
    \/ /\ rpc.kind \in {"UnaryAuthInterceptor", "requireAuthUnaryInterceptor"}
       /\ rpc.method = "/grpc.health.v1.Health/Check"
    \/ /\ rpc.kind \in {"StreamAuthInterceptor", "requireAuthStreamInterceptor"}
       /\ rpc.method = "/grpc.health.v1.Health/Watch"

\* the caller of the RPC holds a registered key
Authenticated(rpc) == AuthenticateResult(keys, rpc.ctx).err = ""

\* the caller's role has the permission the interceptor was made for, if it
\* was made for one
Permitted(rpc) ==
    rpc.kind \in {"UnaryAuthInterceptor", "StreamAuthInterceptor"} =>
        AuthorizeResult(AuthenticateResult(keys, rpc.ctx).role, rpc.perm) = ""

\* C28: an interceptor invokes the handler only for the health check it
\* exempts or for a caller that passes authentication and, in the permission
\* interceptors, authorization; otherwise the RPC ends with Unauthenticated
\* when authentication fails and with PermissionDenied when authorization
\* fails, and the handler is not invoked.
C28_InterceptorsGuardTheHandler ==
    [][rpcLast' # rpcLast =>
        LET rpc == rpcLast'
        IN /\ rpc.handled > 0 =>
                Exempt(rpc) \/ (Authenticated(rpc) /\ Permitted(rpc))
           /\ ~Exempt(rpc) /\ ~Authenticated(rpc) =>
                rpc.code = "Unauthenticated" /\ rpc.handled = 0
           /\ ~Exempt(rpc) /\ Authenticated(rpc) /\ ~Permitted(rpc) =>
                rpc.code = "PermissionDenied" /\ rpc.handled = 0]_vars

C28_Witness ==
    /\ rpcLast.kind = "UnaryAuthInterceptor"
    /\ rpcLast.method = "/grpc.health.v1.Health/Watch"
    /\ rpcLast.perm = PermissionDeployAgent
    /\ KeyK \in DOMAIN keys
    /\ keys[KeyK] = RoleViewer
    /\ rpcLast.ctx.auth = <<Bearer \o KeyK>>
    /\ rpcLast.code = "PermissionDenied"
    /\ rpcLast.handled = 0

\* C29: a Step call makes one pass over the rule list as it was when the
\* call began: its snapshot is the rule list of that moment and never
\* changes, what it evaluates is an initial part of the snapshot, in order
\* and each rule once, the whole of it when the call returns without an
\* error; so a rule added while the call is running is not evaluated by it,
\* and is in the snapshot of the next call.
C29_OnePassOverTheSnapshot ==
    /\ [][\A k \in Steps :
              IF stepPc[k] = "new"
              THEN stepPc'[k] # "new" => stepRules'[k] = rules
              ELSE stepRules'[k] = stepRules[k]]_vars
    /\ [](\A k \in Steps :
              /\ Len(stepEvald[k]) <= Len(stepRules[k])
              /\ \A i \in 1..Len(stepEvald[k]) :
                     stepEvald[k][i].rule = stepRules[k][i].id
              /\ stepPc[k] = "ok" => Len(stepEvald[k]) = Len(stepRules[k]))

\* C29 witness: the first Step call began with one rule, a second rule was
\* added before it returned, it returned having evaluated the first rule
\* only, and the next call has evaluated both.
C29_Witness ==
    /\ stepPc[1] = "ok"
    /\ Len(stepRules[1]) = 1
    /\ Len(stepEvald[1]) = 1
    /\ stepPc[2] = "ok"
    /\ Len(stepEvald[2]) = 2
    /\ stepEvald[2][2].rule = 2

\* what a method of the Matrix works on: the rule list or the agent registry
MatrixGroup(op) == IF op \in {"AddRule", "Step"} THEN "rules" ELSE "agents"

\* C30: the rule list and the agent registry are locked independently and
\* Step holds neither lock while a rule is evaluated: a goroutine inside a
\* rule evaluation holds no mutex but that of the method it has called from
\* there; a goroutine in front of a method's lock, inside an evaluation or
\* not, takes it whenever no other goroutine is inside a method on the same
\* one of the two (rule list, registry); a goroutine inside a method can
\* always finish it; and no goroutine ever holds both mutexes.
C30_RulesAndAgentsLockIndependently ==
    /\ \A th \in MatrixThreads :
           Evaluating(th) =>
               MatrixHeld(th) = IF mxPc[th] = "locked"
                                THEN {MatrixLockOf(mxOp[th].op)}
                                ELSE {}
    /\ \A th \in MatrixThreads :
           (/\ mxPc[th] = "called"
            /\ \A o \in MatrixThreads \ {th} :
                   mxPc[o] = "locked" =>
                       MatrixGroup(mxOp[o].op) # MatrixGroup(mxOp[th].op))
               => ENABLED MatrixLock(th)
    /\ \A th \in MatrixThreads :
           mxPc[th] = "locked" =>
               ENABLED (\/ LockedAddRule(th, SamePriority)
                        \/ LockedAddAgent(th)
                        \/ LockedGetAgent(th)
                        \/ LockedStepCopy(th))
    /\ \A th \in MatrixThreads : Cardinality(MatrixHeld(th)) <= 1

\* C30 witness: a goroutine inside a rule evaluation of its Step call is
\* inside AddRule, holding rulesMu, while the other goroutine is inside
\* AddAgent, holding agentMu.
C30_Witness ==
    \E th, o \in MatrixThreads :
        /\ Evaluating(th)
        /\ MatrixInside(th, "AddRule")
        /\ MatrixHeld(th) = {"rulesMu"}
        /\ MatrixInside(o, "AddAgent")
        /\ MatrixHeld(o) = {"agentMu"}

\* C31: only events of rule evaluations that returned without an error reach
\* the metrics sink: every recorded event is one of an evaluation of its Step
\* call that did not fail, and no event of an evaluation that returned an
\* error, with events or without, is recorded.
C31_EventsOfFailedRuleNotRecorded ==
    /\ \A i \in 1..Len(metricsLog) :
           \E j \in 1..Len(stepEvald[metricsLog[i].step]) :
               LET e == stepEvald[metricsLog[i].step][j]
               IN e.rule = metricsLog[i].rule /\ ~e.failed
                  /\ metricsLog[i].k <= e.n
    /\ \A k \in Steps : \A j \in 1..Len(stepEvald[k]) :
           stepEvald[k][j].failed =>
               \A i \in 1..Len(metricsLog) :
                   ~(metricsLog[i].step = k
                     /\ metricsLog[i].rule = stepEvald[k][j].rule)

\* C31 witness: a Step call recorded the events of its first rule and
\* returned the error of its second, which came with events.
C31_Witness ==
    \E k \in Steps :
        /\ stepPc[k] = "err"
        /\ Len(stepEvald[k]) = 2
        /\ stepEvald[k][2].failed
        /\ stepEvald[k][2].n > 0
        /\ metricsLog # <<>>

\* C32: under every interleaving of Subscribe, cancel signals, Publish and
\* Close the bus never panics: a closed channel is never in the table, a
\* publisher inside its loop holds only open channels, and a channel is
\* closed only by a step that runs with no reader inside the lock and that
\* takes the channel out of the table, so that no channel is closed twice and
\* no send meets a closed channel.
C32_NoDoubleCloseNoSendOnClosed ==
    /\ [](~busPanic)
    /\ [](\A c \in Registered : chState[c] = "open")
    /\ [](\A p \in Readers :
              \A i \in 1..Len(pubSubs[p]) : chState[pubSubs[p][i]] = "open")
    /\ [][\A c \in Chans :
              chState'[c] # chState[c] /\ chState'[c] = "closed" =>
                  /\ Readers = {}
                  /\ chState[c] = "open"
                  /\ c \in Registered
                  /\ c \notin Registered']_vars

\* C32 witness: Close has run and the cleanup goroutines of two subscriptions
\* have run unsubscribe, so that each of the two channels was met by two
\* closing sections; one of them had been sent an event; nothing panicked.
C32_Witness ==
    \E c, d \in Chans :
        /\ c # d
        /\ busClosed
        /\ gor[c] = "exited" /\ gor[d] = "exited"
        /\ chState[c] = "closed" /\ chState[d] = "closed"
        /\ Enq(c) # <<>>
        /\ ~busPanic

\* C33: the events on a subscription (read or still queued) are events that
\* were published for its type, each at most once, those of one publisher in
\* the order it published them; closing a channel leaves its queue as it is,
\* a consumer can read from a closed channel that still holds events, and it
\* sees the end of the sequence only on an empty queue.
C33_ReceivedIsOrderedSubsequence ==
    /\ [](\A c \in Chans :
              LET s == Enq(c) IN
              /\ \A i \in 1..Len(s) :
                     /\ s[i].type = chType[c]
                     /\ s[i].id \in 1..nextId
                     /\ s[i].source \in Publishers
              /\ \A i, j \in 1..Len(s) :
                     i < j =>
                         /\ s[i].id # s[j].id
                         /\ s[i].source = s[j].source => s[i].id < s[j].id)
    /\ [](\A c \in Chans :
              /\ cons[c] = "eos" => buf[c] = <<>>
              /\ chState[c] = "closed" /\ buf[c] # <<>> /\ cons[c] = "reading"
                     => ENABLED Receive(c))
    /\ [][\A c \in Chans :
              /\ chState'[c] # chState[c] => Enq(c)' = Enq(c)
              /\ Len(recvd'[c]) > Len(recvd[c]) =>
                     /\ recvd'[c] = Append(recvd[c], Head(buf[c]))
                     /\ buf'[c] = Tail(buf[c])]_vars

\* C33 witness: a subscription holds two events of one publisher; its channel
\* was closed while the second was queued, and the consumer, having read the
\* first, has not read the second yet.
C33_Witness ==
    \E c \in Chans :
        /\ chState[c] = "closed"
        /\ cons[c] = "reading"
        /\ Len(recvd[c]) = 1
        /\ Len(buf[c]) = 1
        /\ recvd[c][1].source = buf[c][1].source

\* C34: the bus stays usable after Close: a Subscribe after Close registers a
\* new open channel; when a Publish made after Close has finished its loop,
\* every subscription registered for the event's type was made after the
\* Close, is open and holds the event; and an unsubscribe of a subscription
\* made before the Close leaves the table and every channel as they are.
C34_UsableAfterClose ==
    /\ [][busClosed /\ nextCh' # nextCh =>
              /\ nextCh' = nextCh + 1
              /\ chState'[nextCh'] = "open"
              /\ nextCh' \in Registered'
              /\ \A c \in Registered : c \in Registered']_vars
    /\ [](\A p \in Publishers :
              busClosed /\ LoopDone(p) /\ pubEv[p].id > 0 =>
                  \A c \in Range(subscribers[pubEv[p].type]) :
                      /\ c > closedAt
                      /\ chState[c] = "open"
                      /\ Copies(pubEv[p].id, Enq(c)) = 1)
    /\ [][\A c \in Chans :
              busClosed /\ c <= closedAt /\ gor[c] = "waiting"
              /\ gor'[c] = "exited" =>
                  /\ subscribers' = subscribers
                  /\ chState' = chState
                  /\ ~busPanic']_vars

\* C34 witness: a subscription made after Close is registered, open and holds
\* an event, while the cleanup goroutine of a subscription of the same type
\* made before the Close has run unsubscribe.
C34_Witness ==
    \E c, d \in Chans :
        /\ busClosed
        /\ c <= closedAt
        /\ d > closedAt
        /\ chType[c] = chType[d]
        /\ gor[c] = "exited"
        /\ Enq(c) = <<>>
        /\ d \in Registered
        /\ chState[d] = "open"
        /\ Enq(d) # <<>>

\* C35: when New has failed, the runtime it created (if it got that far) has
\* been closed: a failed construction leaves no runtime allocated.
C35_FailedNewClosesRuntime ==
    newPc = "failed" /\ agRuntime => runtimeClosed

C37_BufferKeepsNewestInOrder ==
    /\ [](/\ Len(logs) <= maxLogs
          /\ Len(logs) = IF logCalls < maxLogs THEN logCalls ELSE maxLogs
          /\ \A i \in 1..Len(logs) :
                 logs[i].timestamp = logCalls - Len(logs) + i)
    /\ [][logCalls' = logCalls + 1 =>
              /\ logs' # <<>>
              /\ logs'[Len(logs')].timestamp = logCalls'
              /\ SubSeq(logs', 1, Len(logs') - 1) =
                     IF Len(logs) < maxLogs THEN logs ELSE Tail(logs)]_vars
    /\ [][logsLast' # logsLast /\ logsLast'.filters.limit > 0 =>
              LET n == logsLast'.filters.limit
                  all == SelectSeq(logs, LAMBDA e :
                                             Passes(e, logsLast'.filters))
                  m == Len(all)
              IN  logsLast'.result =
                      IF m <= n THEN all ELSE SubSeq(all, m - n + 1, m)]_vars

\* C37 witness: more than maxLogs entries have been added, the buffer holds
\* maxLogs of them, the oldest is gone, and a GetLogs call with Limit 1 has
\* returned the last of two matching entries.
C37_Witness ==
    /\ logCalls > maxLogs
    /\ Len(logs) = maxLogs
    /\ logs[1].timestamp > 1
    /\ logsLast.called
    /\ logsLast.filters.limit = 1
    /\ logsLast.filters.level = "error"
    /\ Len(SelectSeq(logs, LAMBDA e : e.level = "error")) = 2
    /\ logsLast.result = <<logs[Len(logs)]>>

\* the entries added after the StreamLogs call that ch's consumer has got
SentNew == SelectSeq(strSent, LAMBDA e : e.timestamp > strStart)

\* the entries added after the StreamLogs call that pass its filters
AddedSince ==
    SelectSeq(logs, LAMBDA e : e.timestamp > strStart
                               /\ StreamPasses(e, strFilters))

\* C38: the entries added after the stream started reach the consumer at
\* most once and in insertion order, and whenever the stream, its ctx not
\* cancelled, has caught up with the buffer (it waits at the top of its loop
\* with lastIndex = len(s.logs)), the consumer has got every matching entry
\* added since the start.
C38_StreamDeliversEveryNewEntry ==
    /\ \A i, j \in 1..Len(SentNew) :
           i < j => SentNew[i].timestamp < SentNew[j].timestamp
    /\ strPc = "poll" /\ strLast = Len(logs) /\ ~strCtxDone =>
           SentNew = AddedSince

\* C39: a consumer that stops receiving cannot stall AddLog: whenever AddLog
\* has to wait for the stream's read lock, the stream can take a step of its
\* own; and once its ctx is cancelled a running StreamLogs call can always
\* take a step, and when it has returned ch is closed.
C39_SlowConsumerNeverStallsAddLog ==
    /\ StreamHoldsRLock => ENABLED StreamStep
    /\ strCtxDone /\ strPc \in {"snap", "poll", "scan"} => ENABLED StreamStep
    /\ strPc = "done" => strClosed

\* the messages that arrived after Subscribe call s, in arrival order
ArrivedSince(s) == [i \in 1..(tArrived - tJoinedAt[s]) |-> tJoinedAt[s] + i]

\* C40: when no message waits in the subscription or in a goroutine, every
\* channel of a Subscribe call whose ctx is live has received every message
\* that arrived after the call, in arrival order.
C40_EverySubscriberGetsEveryMessage ==
    /\ tSubQ = <<>>
    /\ \A s \in TSubs : tPc[s] # "send"
    => \A s \in TSubs :
           tPc[s] = "next" /\ ~tCtxDone[s] => tGot[s] = ArrivedSince(s)
====
